---------------------------- MODULE Spec2Model ----------------------------
(***************************************************************************)
(* Model of the duty-pharmacy ETL parsers (src/etl).                       *)
(*                                                                         *)
(* Text is modelled character by character: a Python str is a TLA+ string, *)
(* a regular expression is an operator over character positions.           *)
(***************************************************************************)
EXTENDS Integers, Sequences, FiniteSets, TLC

(***************************************************************************)
(* Characters and character classes                                        *)
(***************************************************************************)
\* s[a-1:b] of Python: the characters a..b of s, clipped to the string
Sub(s, a, b) ==
    LET lo == IF a < 1 THEN 1 ELSE a
        hi == IF b > Len(s) THEN Len(s) ELSE b
    IN  IF lo > hi THEN "" ELSE SubSeq(s, lo, hi)

Ch(s, i) == Sub(s, i, i)

Digits == {"0", "1", "2", "3", "4", "5", "6", "7", "8", "9"}

UpperChars == "ABCDEFGHIJKLMNOPQRSTUVWXYZÉÈÊËÂÀÎÏÔÖÛÜÇ"

LowerChars == "abcdefghijklmnopqrstuvwxyzéèêëâàîïôöûüç"

NBSP == " "

\* \s of the re module, restricted to the characters of the model
Whitespace == {" ", "\t", NBSP}

\* [A-Z] under re.IGNORECASE
AsciiLetters == {Ch(UpperChars, i) : i \in 1..26} \cup {Ch(LowerChars, i) : i \in 1..26}

\* [A-ZÉÈÊËÂÀÎÏÔÖÛÜÇ] (the class _ACC), case-sensitive
_ACC == {Ch(UpperChars, i) : i \in 1..Len(UpperChars)}

\* the class _ACC under re.IGNORECASE
AccIgnoreCase == _ACC \cup {Ch(LowerChars, i) : i \in 1..Len(LowerChars)}

\* lower-case letter -> upper-case letter
UpperOf ==
    [c \in {Ch(LowerChars, i) : i \in 1..Len(LowerChars)} |->
        Ch(UpperChars, CHOOSE i \in 1..Len(LowerChars) : Ch(LowerChars, i) = c)]

\* str.upper() on one character
UpperCh(c) == IF c \in DOMAIN UpperOf THEN UpperOf[c] ELSE c

RECURSIVE upper(_)
\* str.upper()
upper(s) == IF s = "" THEN "" ELSE UpperCh(Head(s)) \o upper(Tail(s))

RECURSIVE RunEnd(_, _, _)
\* position just after the longest run of characters of class C starting at i
RunEnd(s, i, C) ==
    IF i <= Len(s) /\ Ch(s, i) \in C THEN RunEnd(s, i + 1, C) ELSE i

RECURSIVE strip(_)
\* str.strip()
strip(s) ==
    IF s = "" THEN ""
    ELSE IF Head(s) \in Whitespace THEN strip(Tail(s))
    ELSE IF Ch(s, Len(s)) \in Whitespace THEN strip(Sub(s, 1, Len(s) - 1))
    ELSE s

StartsWith(s, p) == Len(p) <= Len(s) /\ Sub(s, 1, Len(p)) = p

\* the substring p occurs in s ("p in s")
Contains(s, p) == \E i \in 1..(Len(s) - Len(p) + 1) : Sub(s, i, i + Len(p) - 1) = p

(***************************************************************************)
(* Week headers: WEEK_RE_A / WEEK_RE_B / WEEK_RE_C and _try_parse_week     *)
(***************************************************************************)
\* Elements of the three week patterns, in the order the regex lists them.
\* cap = TRUE marks a capturing group.
LitE(w) == [t |-> "lit", w |-> w, cap |-> FALSE]

WsE == [t |-> "ws", w |-> "", cap |-> FALSE]

OptWordE == [t |-> "optword", w |-> "", cap |-> FALSE]

DayE == [t |-> "day", w |-> "", cap |-> TRUE]

WordE == [t |-> "word", w |-> "", cap |-> TRUE]

YearE == [t |-> "year", w |-> "", cap |-> TRUE]

DateE == [t |-> "date", w |-> "", cap |-> TRUE]

\* Position after element e matched at position i of s, 0 when it does not
\* match.  Every element is followed by \s+ or by the end of the pattern, so
\* the greedy match is the only one that can succeed:
\*   lit      literal text, re.IGNORECASE
\*   ws       \s+
\*   optword  (?:[_ACC]+\s+)?   (skipped unless a word and a space follow)
\*   day      (\d{1,2}) followed by \s+ : a digit run of length 1 or 2
\*   word     ([_ACC]+)
\*   year     (\d{4})
\*   date     (\d{2}/\d{2}/\d{4})
ElemEnd(s, i, e) ==
    CASE e.t = "lit" ->
            IF UpperCh(Ch(s, i)) = Ch(e.w, 1) /\ upper(Sub(s, i, i + Len(e.w) - 1)) = e.w
            THEN i + Len(e.w) ELSE 0
      [] e.t = "ws" ->
            LET j == RunEnd(s, i, Whitespace) IN IF j > i THEN j ELSE 0
      [] e.t = "optword" ->
            LET j == RunEnd(s, i, AccIgnoreCase)
                k == RunEnd(s, j, Whitespace)
            IN  IF j > i /\ k > j THEN k ELSE i
      [] e.t = "day" ->
            LET j == RunEnd(s, i, Digits) IN IF j - i \in {1, 2} THEN j ELSE 0
      [] e.t = "word" ->
            LET j == RunEnd(s, i, AccIgnoreCase) IN IF j > i THEN j ELSE 0
      [] e.t = "year" ->
            IF i + 3 <= Len(s) /\ \A k \in i..(i + 3) : Ch(s, k) \in Digits
            THEN i + 4 ELSE 0
      [] e.t = "date" ->
            IF /\ i + 9 <= Len(s)
               /\ \A k \in {0, 1, 3, 4, 6, 7, 8, 9} : Ch(s, i + k) \in Digits
               /\ Ch(s, i + 2) = "/" /\ Ch(s, i + 5) = "/"
            THEN i + 10 ELSE 0

\* the least element of a non-empty set of positions
Min(S) == CHOOSE i \in S : \A j \in S : i <= j

RECURSIVE MatchFrom(_, _, _, _, _)
\* the groups captured when pat[k..] matches s at position i
MatchFrom(s, i, pat, k, groups) ==
    IF k > Len(pat) THEN [ok |-> TRUE, g |-> groups]
    ELSE LET j == ElemEnd(s, i, pat[k]) IN
         IF j = 0 THEN [ok |-> FALSE, g |-> <<>>]
         ELSE MatchFrom(s, j, pat, k + 1,
                        IF pat[k].cap THEN Append(groups, Sub(s, i, j - 1)) ELSE groups)

\* pattern.search(s): the leftmost match
Search(pat, s) ==
    LET hits == {i \in 1..Len(s) : ElemEnd(s, i, pat[1]) # 0 /\ MatchFrom(s, i, pat, 1, <<>>).ok} IN
    IF hits = {} THEN [ok |-> FALSE, g |-> <<>>] ELSE MatchFrom(s, Min(hits), pat, 1, <<>>)

WEEK_RE_A ==
    << LitE("SEMAINE"), WsE, LitE("DU"), WsE, OptWordE, DayE, WsE,
       LitE("AU"), WsE, OptWordE, DayE, WsE, WordE, WsE, YearE >>

WEEK_RE_B ==
    << LitE("SEMAINE"), WsE, LitE("DU"), WsE, OptWordE, DayE, WsE, WordE, WsE,
       LitE("AU"), WsE, OptWordE, DayE, WsE, WordE, WsE, YearE >>

WEEK_RE_C ==
    << LitE("SEMAINE"), WsE, LitE("DU"), WsE, OptWordE, DayE, WsE, WordE, WsE, YearE, WsE,
       LitE("AU"), WsE, OptWordE, DayE, WsE, WordE, WsE, YearE >>

MONTHS ==
    [m \in {"JANVIER", "FEVRIER", "FÉVRIER", "MARS", "AVRIL", "MAI", "JUIN", "JUILLET",
            "AOUT", "AOÛT", "SEPTEMBRE", "OCTOBRE", "NOVEMBRE", "DECEMBRE", "DÉCEMBRE"} |->
        CASE m = "JANVIER" -> 1
          [] m \in {"FEVRIER", "FÉVRIER"} -> 2
          [] m = "MARS" -> 3
          [] m = "AVRIL" -> 4
          [] m = "MAI" -> 5
          [] m = "JUIN" -> 6
          [] m = "JUILLET" -> 7
          [] m \in {"AOUT", "AOÛT"} -> 8
          [] m = "SEPTEMBRE" -> 9
          [] m = "OCTOBRE" -> 10
          [] m = "NOVEMBRE" -> 11
          [] m \in {"DECEMBRE", "DÉCEMBRE"} -> 12]

DigitVal(c) == CHOOSE n \in 0..9 : Ch("0123456789", n + 1) = c

RECURSIVE int(_)
\* int() of a string of decimal digits
int(s) == IF s = "" THEN 0 ELSE 10 * int(Sub(s, 1, Len(s) - 1)) + DigitVal(Ch(s, Len(s)))

IsLeap(y) == (y % 4 = 0 /\ y % 100 # 0) \/ y % 400 = 0

DaysInMonth(y, m) ==
    CASE m \in {1, 3, 5, 7, 8, 10, 12} -> 31
      [] m \in {4, 6, 9, 11} -> 30
      [] m = 2 -> IF IsLeap(y) THEN 29 ELSE 28

Dig(n) == Ch("0123456789", n + 1)

\* date.isoformat(): "%04d-%02d-%02d"
isoformat(y, m, d) ==
    Dig(y \div 1000) \o Dig((y \div 100) % 10) \o Dig((y \div 10) % 10) \o Dig(y % 10)
    \o "-" \o Dig(m \div 10) \o Dig(m % 10) \o "-" \o Dig(d \div 10) \o Dig(d % 10)

\* fr_date_to_iso that reads an unknown month name as January
fr_date_to_iso_guess(day, month_name, year) ==
    LET mu == upper(month_name)
        m == IF mu \in DOMAIN MONTHS THEN MONTHS[mu] ELSE 1
        y == int(year)
        d == int(day)
    IN  IF y < 1 \/ d < 1 \/ d > DaysInMonth(y, m)
        THEN [exc |-> "date", iso |-> ""]
        ELSE [exc |-> "", iso |-> isoformat(y, m, d)]

\* fr_date_to_iso: exc = "" and the ISO date, or the ValueError that is raised
\* (unknown month; date() rejecting the year or the day)
fr_date_to_iso(day, month_name, year) ==
    LET mu == upper(month_name) IN
    IF mu \notin DOMAIN MONTHS THEN [exc |-> "month", iso |-> ""]
    ELSE LET m == MONTHS[mu]
             y == int(year)
             d == int(day)
         IN  IF y < 1 \/ d < 1 \/ d > DaysInMonth(y, m)
             THEN [exc |-> "date", iso |-> ""]
             ELSE [exc |-> "", iso |-> isoformat(y, m, d)]

\* result of two date conversions made one after the other: the first
\* exception raised wins
WeekResult(layout, s, e) ==
    IF s.exc # "" THEN [kind |-> "raise", exc |-> s.exc, layout |-> layout, ws |-> "", we |-> ""]
    ELSE IF e.exc # "" THEN [kind |-> "raise", exc |-> e.exc, layout |-> layout, ws |-> "", we |-> ""]
    ELSE [kind |-> "dates", exc |-> "", layout |-> layout, ws |-> s.iso, we |-> e.iso]

NoWeek == [kind |-> "none", exc |-> "", layout |-> "", ws |-> "", we |-> ""]

\* the return statement of one layout: g are the groups of the match, s and
\* e the group numbers of (day, month, year) of the start and of the end
LayoutDates(layout, g, s, e) ==
    WeekResult(layout, fr_date_to_iso(g[s[1]], g[s[2]], g[s[3]]),
                       fr_date_to_iso(g[e[1]], g[e[2]], g[e[3]]))

\* _try_parse_week with the layouts tried in the order A, B, C
TryLayoutsABC(mc, mb, ma) ==
    IF ma.ok THEN LayoutDates("a", ma.g, <<1, 3, 4>>, <<2, 3, 4>>)
    ELSE IF mb.ok THEN LayoutDates("b", mb.g, <<1, 2, 5>>, <<3, 4, 5>>)
    ELSE IF mc.ok THEN LayoutDates("c", mc.g, <<1, 2, 3>>, <<4, 5, 6>>)
    ELSE NoWeek

\* the three "if m:" blocks of _try_parse_week, given the results mc, mb, ma
\* of the three searches: layouts tried in the order C, B, A.  The field
\* layout records which branch returned (or raised).
TryLayouts(mc, mb, ma) ==
    IF mc.ok THEN LayoutDates("c", mc.g, <<1, 2, 3>>, <<4, 5, 6>>)
    ELSE IF mb.ok THEN LayoutDates("b", mb.g, <<1, 2, 5>>, <<3, 4, 5>>)
    ELSE IF ma.ok THEN LayoutDates("a", ma.g, <<1, 3, 4>>, <<2, 3, 4>>)
    ELSE NoWeek

_try_parse_week(ln) ==
    TryLayouts(Search(WEEK_RE_C, ln), Search(WEEK_RE_B, ln), Search(WEEK_RE_A, ln))

(***************************************************************************)
(* Text cleanup and phone extraction                                       *)
(***************************************************************************)
RECURSIVE CollapseWs(_)
\* re.sub(r"\s+", " ", s)
CollapseWs(s) ==
    IF s = "" THEN ""
    ELSE IF Head(s) \in Whitespace
         THEN " " \o CollapseWs(Sub(s, RunEnd(s, 1, Whitespace), Len(s)))
         ELSE Head(s) \o CollapseWs(Tail(s))

RECURSIVE FixSemaine(_)
\* re.sub(r"(\d)SEMAINE", r"\1 SEMAINE", s, flags=re.IGNORECASE)
FixSemaine(s) ==
    IF s = "" THEN ""
    ELSE IF Head(s) \in Digits /\ Len(s) >= 8 /\ upper(Sub(s, 2, 8)) = "SEMAINE"
         THEN Head(s) \o " " \o Sub(s, 2, 8) \o FixSemaine(Sub(s, 9, Len(s)))
         ELSE Head(s) \o FixSemaine(Tail(s))

\* clean (unppci_parse_pdf); str.replace("\xa0", " ") is covered by \s
clean(s) == strip(FixSemaine(CollapseWs(strip(s))))

\* clean_text (annuaireci_scrape): " ".join(s.replace("\xa0", " ").split())
clean_text(s) == strip(CollapseWs(strip(s)))

PhoneSeps == {"/", "|", ",", ";"}

RECURSIVE SplitOn(_, _)
\* re.split on single characters of class C: the pieces, empty ones included
SplitOn(s, C) ==
    LET cut == {i \in 1..Len(s) : Ch(s, i) \in C} IN
    IF cut = {} THEN <<s>>
    ELSE LET i == CHOOSE k \in cut : \A j \in cut : k <= j
         IN  <<Sub(s, 1, i - 1)>> \o SplitOn(Sub(s, i + 1, Len(s)), C)

RECURSIVE OnlyDigits(_)
\* re.sub(r"\D+", "", p)
OnlyDigits(p) ==
    IF p = "" THEN ""
    ELSE (IF Head(p) \in Digits THEN Head(p) ELSE "") \o OnlyDigits(Tail(p))

RECURSIVE DedupStable(_, _)
\* the "seen" loop: first occurrences, order kept
DedupStable(phones, out) ==
    IF phones = <<>> THEN out
    ELSE DedupStable(Tail(phones),
                     IF \E k \in 1..Len(out) : out[k] = Head(phones)
                     THEN out ELSE Append(out, Head(phones)))

RECURSIVE PdfPhoneLoop(_, _)
PdfPhoneLoop(parts, phones) ==
    IF parts = <<>> THEN phones
    ELSE LET digits == OnlyDigits(Head(parts)) IN
         PdfPhoneLoop(Tail(parts),
                      IF Len(digits) \in {8, 10} THEN Append(phones, digits) ELSE phones)

\* extract_phones of unppci_parse_pdf
pdf_extract_phones(text) == DedupStable(PdfPhoneLoop(SplitOn(text, PhoneSeps), <<>>), <<>>)

RECURSIVE _split_long_number_tail8(_, _, _)
\* _split_long_number that takes a last block of 8 digits whenever 8 or 9 remain
_split_long_number_tail8(digits, pos, accumulator) ==
    IF ~(pos < Len(digits)) THEN accumulator
    ELSE LET remaining == Len(digits) - pos IN
         IF remaining >= 10
         THEN _split_long_number_tail8(digits, pos + 10,
                                       Append(accumulator, Sub(digits, pos + 1, pos + 10)))
         ELSE IF remaining >= 8
         THEN Append(accumulator, Sub(digits, pos + 1, pos + 8))
         ELSE accumulator

RECURSIVE _split_long_number(_, _, _)
\* the while loop of _split_long_number; pos counts from 0 as in the source
_split_long_number(digits, pos, accumulator) ==
    IF ~(pos < Len(digits)) THEN accumulator
    ELSE LET remaining == Len(digits) - pos IN
         IF remaining >= 10
         THEN _split_long_number(digits, pos + 10,
                                 Append(accumulator, Sub(digits, pos + 1, pos + 10)))
         ELSE IF remaining = 8
         THEN _split_long_number(digits, pos + 8,
                                 Append(accumulator, Sub(digits, pos + 1, pos + 8)))
         ELSE accumulator

RECURSIVE HtmlPhoneLoop(_, _)
HtmlPhoneLoop(parts, phones) ==
    IF parts = <<>> THEN phones
    ELSE LET p == clean_text(Head(parts))
             digits == OnlyDigits(p)
         IN  HtmlPhoneLoop(Tail(parts),
                 IF p = "" THEN phones
                 ELSE IF Len(digits) \in {8, 10} THEN Append(phones, digits)
                 ELSE IF Len(digits) > 10 THEN _split_long_number(digits, 0, phones)
                 ELSE phones)

\* extract_phones of annuaireci_scrape
html_extract_phones(text) == DedupStable(HtmlPhoneLoop(SplitOn(text, PhoneSeps), <<>>), <<>>)

(***************************************************************************)
(* Line predicates of the PDF classifier                                   *)
(***************************************************************************)
\* separators allowed between digit pairs by PHONE_LIKE_RE
PdfPairSeps == Whitespace \cup {".", "/", "-"}

HtmlPairSeps == Whitespace \cup {".", "-"}

IsDigitPair(s, i) == i + 1 <= Len(s) /\ Ch(s, i) \in Digits /\ Ch(s, i + 1) \in Digits

RECURSIVE PairReps(_, _, _, _)
\* (?:[seps]?\d{2})* matched greedily from position j: end position and count
PairReps(s, j, seps, n) ==
    IF j <= Len(s) /\ Ch(s, j) \in seps /\ IsDigitPair(s, j + 1)
    THEN PairReps(s, j + 3, seps, n + 1)
    ELSE IF IsDigitPair(s, j) THEN PairReps(s, j + 2, seps, n + 1)
    ELSE [end |-> j, n |-> n]

\* \d{2}(?:[seps]?\d{2}){3,} matched at position i: position after the match, 0 if none
PhoneLikeEnd(s, i, seps) ==
    IF ~IsDigitPair(s, i) THEN 0
    ELSE LET r == PairReps(s, i + 2, seps, 0) IN IF r.n >= 3 THEN r.end ELSE 0

\* PHONE_LIKE_RE.search(s) is not None
PhoneLikeSearch(s, seps) == \E i \in 1..Len(s) : PhoneLikeEnd(s, i, seps) # 0

RECURSIVE PhoneLikeSub(_, _)
\* PHONE_LIKE_RE.sub(" ", s) of unppci_parse_pdf
PhoneLikeSub(s, i) ==
    IF i > Len(s) THEN ""
    ELSE LET e == PhoneLikeEnd(s, i, PdfPairSeps) IN
         IF e # 0 THEN " " \o PhoneLikeSub(s, e) ELSE Ch(s, i) \o PhoneLikeSub(s, i + 1)

\* re.sub(r"[\/|;,]\s*$", "", s)
DropTrailingSep(s) ==
    LET t == {i \in 1..Len(s) : Ch(s, i) \in PhoneSeps /\ RunEnd(s, i + 1, Whitespace) = Len(s) + 1}
    IN  IF t = {} THEN s ELSE Sub(s, 1, (CHOOSE i \in t : \A j \in t : i <= j) - 1)

\* re.sub(r"^\s*[\/|;,]", "", s)
DropLeadingSep(s) ==
    LET j == RunEnd(s, 1, Whitespace) IN
    IF j <= Len(s) /\ Ch(s, j) \in PhoneSeps THEN Sub(s, j + 1, Len(s)) ELSE s

\* \w of the re module, restricted to the characters of the model
WordChars == AccIgnoreCase \cup Digits \cup {"_"}

\* \b at position i (between character i-1 and character i)
WordBoundary(s, i) ==
    LET before == i > 1 /\ Ch(s, i - 1) \in WordChars
        after == i <= Len(s) /\ Ch(s, i) \in WordChars
    IN  before # after

\* \bTEL\s*[.:]\s* matched at i: position after the match, 0 if none
TelDotEnd(s, i) ==
    IF i + 2 <= Len(s) /\ upper(Sub(s, i, i + 2)) = "TEL" /\ WordBoundary(s, i)
    THEN LET j == RunEnd(s, i + 3, Whitespace) IN
         IF j <= Len(s) /\ Ch(s, j) \in {".", ":"} THEN RunEnd(s, j + 1, Whitespace) ELSE 0
    ELSE 0

RECURSIVE TelDotSub(_, _)
\* re.sub(r"\bTEL\s*[.:]\s*", " ", s, flags=re.IGNORECASE)
TelDotSub(s, i) ==
    IF i > Len(s) THEN ""
    ELSE LET e == TelDotEnd(s, i) IN
         IF e # 0 THEN " " \o TelDotSub(s, e) ELSE Ch(s, i) \o TelDotSub(s, i + 1)

strip_phones_from_line(ln) ==
    clean(TelDotSub(DropLeadingSep(DropTrailingSep(PhoneLikeSub(ln, 1))), 1))

\* re.fullmatch(r"[\d\s./-]+", line)
_is_pure_digits_line(ln) ==
    ln # "" /\ \A i \in 1..Len(ln) : Ch(ln, i) \in Digits \cup Whitespace \cup {".", "/", "-"}

ADDRESS_KEYWORDS ==
    {"ROUTE", "CARREFOUR", "AVENUE", "BD", "BOULEVARD", "FACE", "PRES",
     "PRÈS", "DERRIERE", "DERRIÈRE", "ARRÊT", "ARRET", "RUE", "LOT",
     "IMMEUBLE", "VILLA", "CITÉ", "CITE", "CAMP", "MARCHE", "STATION",
     "QUARTIER", "PLACE", "ROND", "ENTRE", "APRES", "APRÈS", "DEVANT"}

HEADER_PREFIXES ==
    {"UNION", "GARDE", "SEMAINE", "PERMANENCE", "SECTION", "TOUR", "TEL", "N°", "N  "}

\* set(re.findall(r"[_ACC]+", s)): the maximal runs of letters of _ACC
AccWords(s) ==
    {Sub(s, i, RunEnd(s, i, _ACC) - 1) :
        i \in {k \in 1..Len(s) : Ch(s, k) \in _ACC /\ (k = 1 \/ Ch(s, k - 1) \notin _ACC)}}

RECURSIVE SplitWs(_)
\* set(s.split()): the whitespace-separated words
SplitWs(s) ==
    LET t == strip(s) IN
    IF t = "" THEN {}
    ELSE LET j == RunEnd(t, 1, {c \in {Ch(t, k) : k \in 1..Len(t)} : c \notin Whitespace})
         IN  {Sub(t, 1, j - 1)} \cup SplitWs(Sub(t, j, Len(t)))

\* looks_like_area without the test of the address keywords
looks_like_area_any_word(ln) ==
    IF ln = "" THEN FALSE
    ELSE IF \E prefix \in HEADER_PREFIXES : StartsWith(strip(upper(ln)), prefix) THEN FALSE
    ELSE IF Contains(upper(ln), "PHCIE") \/ Contains(upper(ln), "PHARMACIE") THEN FALSE
    ELSE IF Len(ln) > 50 THEN FALSE
    ELSE IF _is_pure_digits_line(ln) THEN FALSE
    ELSE ln = strip(upper(ln))

looks_like_area(ln) ==
    IF ln = "" THEN FALSE
    ELSE LET up == strip(upper(ln)) IN
         IF \E prefix \in HEADER_PREFIXES : StartsWith(up, prefix) THEN FALSE
         ELSE IF Contains(up, "PHCIE") \/ Contains(up, "PHARMACIE") THEN FALSE
         ELSE IF AccWords(up) \cap ADDRESS_KEYWORDS # {} THEN FALSE
         ELSE IF Len(ln) > 50 THEN FALSE
         ELSE IF _is_pure_digits_line(ln) THEN FALSE
         ELSE ln = up

NoMatch == [ok |-> FALSE, g |-> <<>>]

\* (PHCIE|PHARMACIE)\s+(.+)$ matched at position i (re.IGNORECASE): the
\* keyword and the rest of the line.  When only whitespace follows the
\* keyword, \s+ gives its last character back to (.+).
KeywordTail(s, i) ==
    LET kw == IF upper(Sub(s, i, i + 4)) = "PHCIE" THEN "PHCIE"
              ELSE IF upper(Sub(s, i, i + 8)) = "PHARMACIE" THEN "PHARMACIE" ELSE ""
        j == i + Len(kw)
        k == RunEnd(s, j, Whitespace)
    IN  IF i < 1 \/ kw = "" \/ k = j THEN NoMatch
        ELSE IF k <= Len(s) THEN [ok |-> TRUE, g |-> <<Sub(s, i, j - 1), Sub(s, k, Len(s))>>]
        ELSE IF k - j >= 2 THEN [ok |-> TRUE, g |-> <<Sub(s, i, j - 1), Sub(s, k - 1, Len(s))>>]
        ELSE NoMatch

\* PHARM_RE.match(line): groups (keyword, rest)
PHARM_RE(ln) == KeywordTail(ln, 1)

\* CityGroups with the pharmacy keyword kept at the head of the rest
CityGroupsKeyword(ln, n, t) ==
    [ok |-> TRUE, g |-> <<Sub(ln, 1, n), t.g[1], t.g[1] \o " " \o t.g[2]>>]

\* the groups of CITY_PHARM_RE for a city of n characters and the match t of
\* the keyword and the rest
CityGroups(ln, n, t) == [ok |-> TRUE, g |-> <<Sub(ln, 1, n)>> \o t.g]

\* CITY_PHARM_RE.match(line): groups (city, keyword, rest).  Group 1 is lazy:
\* the shortest span of at least 3 characters of [A-Z\s-] (first one a letter)
\* that is followed by \s+, a pharmacy keyword, \s+ and a non-empty rest.
CITY_PHARM_RE(ln) ==
    LET cls == AsciiLetters \cup Whitespace \cup {"-"}
        ok(n) == /\ Ch(ln, 1) \in AsciiLetters
                 /\ \A k \in 2..n : Ch(ln, k) \in cls
                 /\ RunEnd(ln, n + 1, Whitespace) > n + 1
                 /\ KeywordTail(ln, RunEnd(ln, n + 1, Whitespace)).ok
        ns == {n \in 3..Len(ln) : ok(n)}
    IN  IF ns = {} THEN NoMatch
        ELSE CityGroups(ln, Min(ns), KeywordTail(ln, RunEnd(ln, Min(ns) + 1, Whitespace)))

\* U+2013 (en dash) is written "~" in the texts of this module
EnDash == "~"

\* the alternatives of the split pattern of _extract_pharmacy_name at position i:
\*   \s*[EnDash]\s*  |  \s+-\s*  |  \s*/\s*  |  \bTEL\b      (re.IGNORECASE)
NameSepAt(s, i) ==
    LET j == RunEnd(s, i, Whitespace) IN
    \/ j <= Len(s) /\ Ch(s, j) \in {EnDash, "/"}
    \/ j > i /\ j <= Len(s) /\ Ch(s, j) = "-"
    \/ /\ i + 2 <= Len(s)
       /\ upper(Sub(s, i, i + 2)) = "TEL"
       /\ WordBoundary(s, i)
       /\ WordBoundary(s, i + 3)

\* re.split(..., rest, maxsplit=1)[0], then clean(name_raw.strip())
_extract_pharmacy_name(rest) ==
    LET seps == {i \in 1..Len(rest) : NameSepAt(rest, i)} IN
    clean(strip(IF seps = {} THEN rest
                ELSE Sub(rest, 1, (CHOOSE i \in seps : \A j \in seps : i <= j) - 1)))

(***************************************************************************)
(* Bounds and inputs                                                       *)
(***************************************************************************)
\* number of text lines of the PDF
MaxLines == 4

\* The raw text lines a PDF page can give (before clean).
PdfLines ==
    { "SEMAINE DU SAMEDI 07 AU VENDREDI 13 FEVRIER 2026",
      "SEMAINE DU SAMEDI 28 FEVRIER AU VENDREDI 06 MARS 2026",
      "SEMAINE DU 07 AU 13 FEVRYER 2026",
      "SEMAINE DU 24 AU 30 FEVRIER 2026",
      "SECTION ABIDJAN NORD",
      " COCODY",
      "ROUTE DU MARCHE",
      "ABENGOUROU PHCIE DU MARCHE / MME KOFFI",
      "GRAND-BASSAM",
      "Grand-Bassam Pharmacie de la Paix - TEL 21301234",
      "PHCIE DES ARTS / 0769353909/0509098877",
      "PHARMACIE STE ANNE - TEL 21240000",
      "PHCIE / 21240000",
      "PHCIE STE ANNE PHARMACIE DU PLATEAU / 21240000",
      "ROUTE ABENGOUROU PHCIE DU PONT",
      "07 69 35 39 09 / 21 24 00 00",
      "PRES DU PONT  TEL: 05 09 09 88 77",
      "  " }

\* what the loop body computes from one cleaned line l, given the results
\* mcity and mph of CITY_PHARM_RE.match and PHARM_RE.match and the upper-cased
\* city prefix: the calls of lines 310, 332, 338-339, 353-361, 371-372,
\* 384-388, 403-415
LineFacts(l, mcity, mph, city_prefix) ==
    [ line |-> l,
      week_dates |-> _try_parse_week(l),
      up |-> upper(l),
      looks_like_area |-> looks_like_area(l),
      area_name |-> strip(upper(l)),
      mcity |-> mcity.ok,
      city_prefix |-> city_prefix,
      city_ok |-> mcity.ok /\ SplitWs(city_prefix) \cap ADDRESS_KEYWORDS = {}
                           /\ Len(city_prefix) >= 3,
      city_name_raw |-> IF mcity.ok THEN _extract_pharmacy_name(strip(mcity.g[3])) ELSE "",
      mph |-> mph.ok,
      name_raw |-> IF mph.ok THEN _extract_pharmacy_name(strip(mph.g[2])) ELSE "",
      phones |-> pdf_extract_phones(l),
      has_phone |-> PhoneLikeSearch(l, PdfPairSeps),
      addr_part |-> strip_phones_from_line(l) ]

\* city_prefix = m_city.group(1).strip().upper() (line 354)
CityPrefix(mcity) == IF mcity.ok THEN upper(strip(mcity.g[1])) ELSE ""

CleanFacts(l, mcity, mph) == LineFacts(l, mcity, mph, CityPrefix(mcity))

\* line = clean(f) (line 301), then the loop body
FactsOf(raw) == CleanFacts(clean(raw), CITY_PHARM_RE(clean(raw)), PHARM_RE(clean(raw)))

\* FactsOf of every line a PDF page can give
PdfFacts == {FactsOf(raw) : raw \in PdfLines}

(***************************************************************************)
(* parse_unppci_pdf: the line classifier                                   *)
(***************************************************************************)
VARIABLES
    weeks,          \* list of {week_start, week_end, areas}
    current_week,   \* index in weeks of the open period, 0 for None
    current_area,   \* index in weeks[current_week].areas, 0 for None
    area_by_name,   \* upper-cased label -> index of the area in the open period
    pc,             \* "lines" (in the loop), "returned", "raised"; "off": not running
    payload,        \* the dict returned, NoPayload before the return
    warned,         \* the "Aucune pharmacie extraite" warning was logged
    line,           \* the last line processed (after clean)
    rule,           \* the branch of the loop body the last line took
    nlines,         \* number of lines read so far
    headings,       \* the h2/h3 headings of the HTML page, up to the anchor
    hpc,            \* parse_annuaireci: "week", "anchor", "nodes", "returned", "raised"; "off"
    data,           \* the dict that parse_annuaireci builds and returns
    current_area_obj, \* index in data.areas of the open area, 0 for None
    pending,        \* nodes after the last h4, already read by _collect_pharmacy_details
    nnodes,         \* number of nodes visited by the loop of parse_annuaireci
    hrule,          \* the branch the last step of parse_annuaireci took
    arg,            \* input of a helper called on its own
    fn,             \* the helper that was called, "" before the call
    ret,            \* what it returned
    table,          \* the rows that the database table holds
    upsert,         \* upsert_with_retry: its arguments, locals and program counter
    loader,         \* main of load_unppci_to_supabase: its locals and program counter
    crawl           \* discover_articles: its arguments, locals and program counter

vars == <<weeks, current_week, current_area, area_by_name, pc, payload, warned,
          line, rule, nlines, headings, hpc, data, current_area_obj, pending, nnodes,
          hrule, arg, fn, ret, table, upsert, loader, crawl>>

htmlVars == <<headings, hpc, data, current_area_obj, pending, nnodes, hrule>>

pdfVars == <<weeks, current_week, current_area, area_by_name, pc, payload, warned,
             line, rule, nlines>>

fnVars == <<arg, fn, ret>>

dbVars == <<table, upsert, loader, crawl>>

\* upsert_with_retry, main and discover_articles are not running
DbOff ==
    /\ table = {}
    /\ upsert = [at |-> "off"]
    /\ loader = [at |-> "off"]
    /\ crawl = [at |-> "off"]

NoPayload == [source |-> "", scraped_at |-> "", weeks |-> <<>>]

NoArea == <<>>

\* state of parse_unppci_pdf before the first line (lines 285-289), with the
\* program counter at p
PdfState(p) ==
    /\ weeks = <<>>
    /\ current_week = 0
    /\ current_area = 0
    /\ area_by_name = NoArea
    /\ pc = p
    /\ payload = NoPayload
    /\ warned = FALSE
    /\ line = ""
    /\ rule = ""
    /\ nlines = 0

PdfInit == PdfState("lines")

\* parse_unppci_pdf is not running
PdfOff == PdfState("off")

NoRet == [kind |-> "idle"]

FnIdle == arg = "" /\ fn = "" /\ ret = NoRet

\* a line is read: for line in lines (line 304)
Reads(f, tag) ==
    /\ pc = "lines"
    /\ nlines < MaxLines
    /\ nlines' = nlines + 1
    /\ line' = f.line
    /\ rule' = tag
    /\ UNCHANGED <<payload, warned, fnVars, dbVars, htmlVars>>

\* if not line: continue (lines 305-306)
SkipEmpty(f) ==
    /\ f.line = ""
    /\ Reads(f, "empty")
    /\ pc' = pc
    /\ UNCHANGED <<weeks, current_week, current_area, area_by_name>>

IsRepeat(wd) ==
    /\ weeks # <<>>
    /\ weeks[Len(weeks)].week_start = wd.ws
    /\ weeks[Len(weeks)].week_end = wd.we

\* a week header that opens a new period (lines 310-324, else branch)
WeekNew(f) ==
    /\ f.line # ""
    /\ f.week_dates.kind = "dates"
    /\ ~IsRepeat(f.week_dates)
    /\ Reads(f, "week")
    /\ pc' = pc
    /\ weeks' = Append(weeks, [week_start |-> f.week_dates.ws,
                               week_end |-> f.week_dates.we,
                               areas |-> <<>>])
    /\ current_week' = Len(weeks) + 1
    /\ current_area' = 0
    /\ area_by_name' = NoArea

\* WeekRepeat that closes the current area as a new period does
WeekRepeatResets(f) ==
    /\ f.line # ""
    /\ f.week_dates.kind = "dates"
    /\ IsRepeat(f.week_dates)
    /\ Reads(f, "week_repeat")
    /\ pc' = pc
    /\ current_area' = 0
    /\ area_by_name' = NoArea
    /\ UNCHANGED <<weeks, current_week>>

\* a week header that repeats the latest period (lines 314-316)
WeekRepeat(f) ==
    /\ f.line # ""
    /\ f.week_dates.kind = "dates"
    /\ IsRepeat(f.week_dates)
    /\ Reads(f, "week_repeat")
    /\ pc' = pc
    /\ UNCHANGED <<weeks, current_week, current_area, area_by_name>>

\* fr_date_to_iso raises ValueError inside _try_parse_week (line 310):
\* nothing catches it, parse_unppci_pdf is left without a return value
WeekRaise(f) ==
    /\ f.line # ""
    /\ f.week_dates.kind = "raise"
    /\ Reads(f, "raise")
    /\ pc' = "raised"
    /\ UNCHANGED <<weeks, current_week, current_area, area_by_name>>

\* the line is not a week header
NotWeek(f) == f.line # "" /\ f.week_dates.kind = "none"

\* the loop body without "if current_week is None: continue": the later rules
\* subscript current_week, which is None
PreWeekNoGuard(f) ==
    /\ NotWeek(f)
    /\ current_week = 0
    /\ Reads(f, "raise")
    /\ pc' = "raised"
    /\ UNCHANGED <<weeks, current_week, current_area, area_by_name>>

\* if current_week is None: continue (lines 327-329)
PreWeek(f) ==
    /\ NotWeek(f)
    /\ current_week = 0
    /\ Reads(f, "ignored_pre_week")
    /\ pc' = pc
    /\ UNCHANGED <<weeks, current_week, current_area, area_by_name>>

IsBoilerplate(f) ==
    \/ StartsWith(f.up, "SECTION")
    \/ StartsWith(f.up, "PERMANENCE")
    \/ StartsWith(f.up, "TOUR DE GARDE")

\* section / header lines (lines 332-335)
Boilerplate(f) ==
    /\ NotWeek(f)
    /\ current_week # 0
    /\ IsBoilerplate(f)
    /\ Reads(f, "skipped")
    /\ pc' = pc
    /\ UNCHANGED <<weeks, current_week, current_area, area_by_name>>

\* the line reaches the area test
ReachesArea(f) == NotWeek(f) /\ current_week # 0 /\ ~IsBoilerplate(f)

NewArea(label) == [area |-> label, pharmacies |-> <<>>]

\* OpenArea without the registry: a new area for every label
OpenAreaNew(key, label) ==
    [areas |-> Append(weeks[current_week].areas, NewArea(label)),
     reg |-> area_by_name,
     idx |-> Len(weeks[current_week].areas) + 1]

\* reuse or create the area registered under key (lines 340-345, 363-368):
\* the areas of the open period, the registry and the index of the area
OpenArea(key, label) ==
    IF key \in DOMAIN area_by_name
    THEN [areas |-> weeks[current_week].areas, reg |-> area_by_name, idx |-> area_by_name[key]]
    ELSE [areas |-> Append(weeks[current_week].areas, NewArea(label)),
          reg |-> [k \in DOMAIN area_by_name \cup {key} |->
                      IF k = key THEN Len(weeks[current_week].areas) + 1 ELSE area_by_name[k]],
          idx |-> Len(weeks[current_week].areas) + 1]

\* geographic area on its own line (lines 338-348)
AreaLine(f) ==
    /\ ReachesArea(f)
    /\ f.looks_like_area
    /\ Reads(f, "area")
    /\ pc' = pc
    /\ LET o == OpenArea(f.area_name, f.line) IN
        /\ weeks' = [weeks EXCEPT ![current_week].areas = o.areas]
        /\ area_by_name' = o.reg
        /\ current_area' = o.idx
    /\ UNCHANGED current_week

NewPharmacy(name_raw, phones) ==
    [name_raw |-> name_raw, address_raw |-> "", phones_raw |-> phones]

\* CityPharmacy without the test of the city span
CityPharmacyAnyCity(f) ==
    /\ ReachesArea(f)
    /\ ~f.looks_like_area
    /\ f.mcity
    /\ Reads(f, "pharmacy_city")
    /\ pc' = pc
    /\ LET o == OpenArea(f.city_prefix, f.city_prefix) IN
        /\ weeks' = [weeks EXCEPT ![current_week].areas =
                        [o.areas EXCEPT ![o.idx].pharmacies =
                            Append(@, NewPharmacy(f.city_name_raw, f.phones))]]
        /\ area_by_name' = o.reg
        /\ current_area' = o.idx
    /\ UNCHANGED current_week

\* pharmacy line with the city as prefix (lines 353-381)
CityPharmacy(f) ==
    /\ ReachesArea(f)
    /\ ~f.looks_like_area
    /\ f.mcity
    /\ f.city_ok
    /\ Reads(f, "pharmacy_city")
    /\ pc' = pc
    /\ LET o == OpenArea(f.city_prefix, f.city_prefix) IN
        /\ weeks' = [weeks EXCEPT ![current_week].areas =
                        [o.areas EXCEPT ![o.idx].pharmacies =
                            Append(@, NewPharmacy(f.city_name_raw, f.phones))]]
        /\ area_by_name' = o.reg
        /\ current_area' = o.idx
    /\ UNCHANGED current_week

\* the line reaches the plain pharmacy test
ReachesPharmacy(f) ==
    /\ ReachesArea(f)
    /\ ~f.looks_like_area
    /\ ~(f.mcity /\ f.city_ok)

\* PlainPharmacy without the test of current_area: with no area open the
\* pharmacy goes to the last area of the period before
PlainPharmacyEarlier(f) ==
    /\ ReachesPharmacy(f)
    /\ f.mph
    /\ Reads(f, "pharmacy")
    /\ pc' = pc
    /\ IF current_area # 0
       THEN weeks' = [weeks EXCEPT ![current_week].areas[current_area].pharmacies =
                         Append(@, NewPharmacy(f.name_raw, f.phones))]
       ELSE /\ current_week > 1
            /\ weeks[current_week - 1].areas # <<>>
            /\ weeks' = [weeks EXCEPT ![current_week - 1].areas
                                         [Len(weeks[current_week - 1].areas)].pharmacies =
                            Append(@, NewPharmacy(f.name_raw, f.phones))]
    /\ UNCHANGED <<current_week, current_area, area_by_name>>

\* pharmacy line under the current area (lines 384-397)
PlainPharmacy(f) ==
    /\ ReachesPharmacy(f)
    /\ f.mph
    /\ current_area # 0
    /\ Reads(f, "pharmacy")
    /\ pc' = pc
    /\ weeks' = [weeks EXCEPT ![current_week].areas[current_area].pharmacies =
                    Append(@, NewPharmacy(f.name_raw, f.phones))]
    /\ UNCHANGED <<current_week, current_area, area_by_name>>

\* the line reaches the continuation test
ReachesContinuation(f) ==
    /\ ReachesPharmacy(f)
    /\ ~(f.mph /\ current_area # 0)

\* if current_area and current_area["pharmacies"] (line 400)
HasLast ==
    /\ current_area # 0
    /\ weeks[current_week].areas[current_area].pharmacies # <<>>

RECURSIVE MergePhonesAll(_, _)
\* MergePhones without the test "ph not in last[phones_raw]"
MergePhonesAll(phones_raw, new_phones) ==
    IF new_phones = <<>> THEN phones_raw
    ELSE MergePhonesAll(Append(phones_raw, Head(new_phones)), Tail(new_phones))

RECURSIVE MergePhones(_, _)
\* for ph in new_phones: if ph not in last["phones_raw"]: append (lines 408-410)
MergePhones(phones_raw, new_phones) ==
    IF new_phones = <<>> THEN phones_raw
    ELSE MergePhones(IF \E k \in 1..Len(phones_raw) : phones_raw[k] = Head(new_phones)
                     THEN phones_raw ELSE Append(phones_raw, Head(new_phones)),
                     Tail(new_phones))

\* JoinAddress without the space between the address and the text
JoinAddressNoSpace(address_raw, text) == clean(strip(address_raw \o text))

\* clean((last["address_raw"] + " " + text).strip()) (lines 416-418, 424-426)
JoinAddress(address_raw, text) == clean(strip(address_raw \o " " \o text))

\* index of the last pharmacy of the current area
LastIdx == Len(weeks[current_week].areas[current_area].pharmacies)

\* continuation line with a phone number (lines 405-421)
ContinuationPhone(f) ==
    /\ ReachesContinuation(f)
    /\ HasLast
    /\ f.has_phone
    /\ Reads(f, "phone")
    /\ pc' = pc
    /\ weeks' = [weeks EXCEPT ![current_week].areas[current_area].pharmacies[LastIdx] =
                    [@ EXCEPT !.phones_raw = MergePhones(@, f.phones),
                              !.address_raw =
                                  IF f.addr_part # "" /\ ~_is_pure_digits_line(f.addr_part)
                                  THEN JoinAddress(@, f.addr_part) ELSE @]]
    /\ UNCHANGED <<current_week, current_area, area_by_name>>

\* ContinuationAddress that writes to the first pharmacy of the area
ContinuationAddressFirst(f) ==
    /\ ReachesContinuation(f)
    /\ HasLast
    /\ ~f.has_phone
    /\ Reads(f, "address")
    /\ pc' = pc
    /\ weeks' = [weeks EXCEPT ![current_week].areas[current_area].pharmacies[1] =
                    [@ EXCEPT !.address_raw = JoinAddress(@, f.line)]]
    /\ UNCHANGED <<current_week, current_area, area_by_name>>

\* continuation line without phone number: address (lines 422-428)
ContinuationAddress(f) ==
    /\ ReachesContinuation(f)
    /\ HasLast
    /\ ~f.has_phone
    /\ Reads(f, "address")
    /\ pc' = pc
    /\ weeks' = [weeks EXCEPT ![current_week].areas[current_area].pharmacies[LastIdx] =
                    [@ EXCEPT !.address_raw = JoinAddress(@, f.line)]]
    /\ UNCHANGED <<current_week, current_area, area_by_name>>

\* unclassified line (lines 431-433)
Unclassified(f) ==
    /\ ReachesContinuation(f)
    /\ ~HasLast
    /\ Reads(f, "unclassified")
    /\ pc' = pc
    /\ UNCHANGED <<weeks, current_week, current_area, area_by_name>>

RECURSIVE SumLen(_, _)
SumLen(seq, field) ==
    IF seq = <<>> THEN 0
    ELSE (IF field = "areas" THEN SumLen(Head(seq).areas, "pharmacies")
          ELSE Len(Head(seq).pharmacies)) + SumLen(Tail(seq), field)

\* sum(len(a["pharmacies"]) for w in weeks for a in w["areas"]) (lines 437-439)
total_pharmacies == SumLen(weeks, "areas")

\* what datetime.now(timezone.utc).isoformat() can give (line 280); the value
\* is read on entry and used by the return statement only
UtcNow == {"2026-02-07T08:00:00.000001+00:00", "2026-02-07T08:00:00.000002+00:00"}

\* the loop over the pages with the state of the classifier set up inside it
NextPageResets ==
    /\ pc = "lines"
    /\ nlines < MaxLines
    /\ rule # "page"
    /\ rule' = "page"
    /\ current_area' = 0
    /\ area_by_name' = NoArea
    /\ UNCHANGED <<weeks, current_week, pc, payload, warned, line, nlines, fnVars, dbVars, htmlVars>>

\* the loop over the pages goes to the next page (line 297): the lines of a
\* page are read by the same inner loop
NextPage ==
    /\ pc = "lines"
    /\ nlines < MaxLines
    /\ rule # "page"
    /\ rule' = "page"
    /\ UNCHANGED <<weeks, current_week, current_area, area_by_name, pc, payload, warned,
                   line, nlines, fnVars, dbVars, htmlVars>>

\* end of the pages: statistics, warning and return (lines 436-461)
Return ==
    /\ pc = "lines"
    /\ pc' = "returned"
    /\ warned' = (total_pharmacies = 0)
    /\ \E t \in UtcNow : payload' = [source |-> "unppci", scraped_at |-> t, weeks |-> weeks]
    /\ rule' = "return"
    /\ UNCHANGED <<weeks, current_week, current_area, area_by_name, line, nlines, fnVars, dbVars,
                   htmlVars>>

\* one iteration of the loop over the lines, or the end of the lines
PdfNext ==
    \/ \E f \in PdfFacts :
          \/ SkipEmpty(f)
          \/ WeekNew(f)
          \/ WeekRepeat(f)
          \/ WeekRaise(f)
          \/ PreWeek(f)
          \/ Boilerplate(f)
          \/ AreaLine(f)
          \/ CityPharmacy(f)
          \/ PlainPharmacy(f)
          \/ ContinuationPhone(f)
          \/ ContinuationAddress(f)
          \/ Unclassified(f)
    \/ NextPage
    \/ Return

(***************************************************************************)
(* annuaireci_scrape: parse_week_range, _collect_pharmacy_details and      *)
(* parse_annuaireci                                                        *)
(***************************************************************************)
\* WEEK_RE of annuaireci_scrape
WEEK_RE ==
    << LitE("SEMAINE"), WsE, LitE("DU"), WsE, DateE, WsE, LitE("AU"), WsE, DateE >>

HEADING_TAGS == {"h2", "h3", "h4"}

CONTENT_TAGS == {"p", "div", "span", "li", "ul", "ol", "address", "strong", "em", "a"}

STOP_TITLES ==
    {"Urgence", "Horaires", "Localisation", "Rechercher une pharmacie", "Questions fréquentes"}

\* the date that dateutil reads in (day, month, year) or the ValueError it raises
DateOf(d, m, y) ==
    IF m \in 1..12 /\ y >= 1 /\ d >= 1 /\ d <= DaysInMonth(y, m)
    THEN [exc |-> "", iso |-> isoformat(y, m, d)]
    ELSE [exc |-> "date", iso |-> ""]

\* dtparse(s, dayfirst=True).date().isoformat() for s = "dd/mm/yyyy": the
\* first number is the day unless it fits a month and the second does not
DayFirst(a, b, y) == IF a > 12 \/ b <= 12 THEN DateOf(a, b, y) ELSE DateOf(b, a, y)

dtparse(s) == DayFirst(int(Sub(s, 1, 2)), int(Sub(s, 4, 5)), int(Sub(s, 7, 10)))

RECURSIVE parse_week_range(_)
\* m: the result of WEEK_RE.search on the first heading of hs
WeekRangeStep(m, hs) ==
    IF m.ok THEN WeekResult("html", dtparse(m.g[1]), dtparse(m.g[2]))
    ELSE parse_week_range(Tail(hs))

\* parse_week_range over the h2/h3 headings hs of the page, in document order
parse_week_range(hs) ==
    IF hs = <<>>
    THEN [kind |-> "raise", exc |-> "structure", layout |-> "", ws |-> "", we |-> ""]
    ELSE WeekRangeStep(Search(WEEK_RE, clean_text(Head(hs).text)), hs)

\* AddBlock that puts a slash between the texts of the phone-bearing blocks
AddBlockSlash(acc, txt) ==
    IF txt = "" THEN acc
    ELSE IF PhoneLikeSearch(txt, HtmlPairSeps)
    THEN [acc EXCEPT !.phone_text = @ \o " / " \o txt]
    ELSE [acc EXCEPT !.address_lines = Append(@, txt)]

\* the text of a phone-bearing or address block, added to what was collected
AddBlock(acc, txt) ==
    IF txt = "" THEN acc
    ELSE IF PhoneLikeSearch(txt, HtmlPairSeps)
    THEN [acc EXCEPT !.phone_text = @ \o " " \o txt]
    ELSE [acc EXCEPT !.address_lines = Append(@, txt)]

RECURSIVE SiblingWalk(_, _)
\* the find_next_sibling loop (lines 248-263) over the siblings that follow
\* the h4; a heading ends it (lines 250-251)
SiblingWalk(siblings, acc) ==
    IF siblings = <<>> THEN acc
    ELSE IF Head(siblings).tag \in HEADING_TAGS THEN acc
    ELSE SiblingWalk(Tail(siblings), AddBlock(acc, clean_text(Head(siblings).text)))

RECURSIVE ForwardScan(_, _, _)
\* the find_next loop (lines 270-281) over the nodes that follow the h4 in
\* document order; a heading ends it (lines 272-273)
ForwardScan(nodes, seen_texts, acc) ==
    IF nodes = <<>> THEN acc
    ELSE IF Head(nodes).tag \in HEADING_TAGS THEN acc
    ELSE IF Head(nodes).tag \notin CONTENT_TAGS
         \/ clean_text(Head(nodes).text) \in seen_texts
    THEN ForwardScan(Tail(nodes), seen_texts, acc)
    ELSE ForwardScan(Tail(nodes), seen_texts \cup {clean_text(Head(nodes).text)},
                     AddBlock(acc, clean_text(Head(nodes).text)))

NoDetails == [address_lines |-> <<>>, phone_text |-> ""]

\* _collect_pharmacy_details that runs the forward scan in every case
FallbackAlways(found, blocks) == ForwardScan(blocks, {}, NoDetails)

\* if not address_lines and not phone_text: the fallback (lines 267-281)
Fallback(found, blocks) ==
    IF found.address_lines = <<>> /\ found.phone_text = ""
    THEN ForwardScan(blocks, {}, NoDetails)
    ELSE found

\* _collect_pharmacy_details for an h4 followed by the nodes blocks; wrapped:
\* the h4 is alone in its parent and has no sibling
_collect_pharmacy_details(wrapped, blocks) ==
    Fallback(SiblingWalk(IF wrapped THEN <<>> ELSE blocks, NoDetails), blocks)

RECURSIVE Join(_)
\* " ".join(address_lines)
Join(strs) ==
    IF strs = <<>> THEN ""
    ELSE IF Len(strs) = 1 THEN Head(strs)
    ELSE Head(strs) \o " " \o Join(Tail(strs))

\* the pharmacy dict appended for an h4 (lines 339-351)
HtmlPharmacy(name, details) ==
    [ name_raw |-> clean_text(name),
      address_raw |-> IF details.address_lines # <<>>
                      THEN clean_text(Join(details.address_lines)) ELSE "",
      phones_raw |-> html_extract_phones(details.phone_text) ]

\* number of nodes that the loop of parse_annuaireci visits
MaxNodes == 4

\* number of blocks between an h4 and the next heading
MaxBlocks == 2

HeadingTexts ==
    { [tag |-> "h2", text |-> "Semaine du 07/02/2026 au 13/02/2026"],
      [tag |-> "h3", text |-> "Liste des pharmacies de garde"],
      [tag |-> "h2", text |-> "Pharmacies de garde"] }

\* the h2/h3 headings that a page can have up to its anchor
HeadingLists ==
    {<<>>} \cup {<<a>> : a \in HeadingTexts} \cup {<<a, b>> : a \in HeadingTexts, b \in HeadingTexts}

\* the h2/h3 nodes that can follow the anchor
HeadingNodes ==
    { [tag |-> "h3", text |-> "COCODY"],
      [tag |-> "h3", text |-> " Yopougon "],
      [tag |-> "h3", text |-> "Urgence"],
      [tag |-> "h2", text |-> "Horaires"],
      [tag |-> "h2", text |-> "Annonces"] }

PharmacyNodes ==
    { [tag |-> "h4", text |-> "Pharmacie des Arts", wrapped |-> FALSE],
      [tag |-> "h4", text |-> "Pharmacie des Arts", wrapped |-> TRUE] }

\* an h4 with the text of a stop title, followed by a heading
StopNodes == { [tag |-> "h4", text |-> "Urgence", wrapped |-> FALSE] }

\* the nodes between an h4 and the next heading
Blocks ==
    { [tag |-> "p", text |-> "0769353909"],
      [tag |-> "p", text |-> "21240000 / 07 69 35 39 09"],
      [tag |-> "div", text |-> "Rue du Commerce"],
      [tag |-> "br", text |-> ""],
      [tag |-> "table", text |-> "05 09 09 88"] }

RECURSIVE BlockSeqs(_)
BlockSeqs(n) ==
    IF n = 0 THEN {<<>>}
    ELSE BlockSeqs(n - 1) \cup {Append(b, x) : b \in {c \in BlockSeqs(n - 1) : Len(c) = n - 1},
                                               x \in Blocks}

\* what an h4 followed by the blocks b gives: the pharmacy dict and the
\* nodes that the loop of parse_annuaireci visits after the h4
PharmacyFacts ==
    { [pharmacy |-> HtmlPharmacy(n.text, _collect_pharmacy_details(n.wrapped, b)),
       after |-> SelectSeq(b, LAMBDA x : x.tag \in CONTENT_TAGS)] :
        n \in PharmacyNodes, b \in BlockSeqs(MaxBlocks) }
    \cup { [pharmacy |-> HtmlPharmacy(n.text, _collect_pharmacy_details(n.wrapped, <<>>)),
            after |-> <<>>] : n \in StopNodes }

NoData == [source |-> "", week_start |-> "", week_end |-> "", areas |-> <<>>, scraped_at |-> ""]

\* what date.today().isoformat() can give (line 312)
Today == {"2026-02-07", "2026-02-08"}

\* parse_annuaireci with the program counter at p, before its first statement
HtmlState(p) ==
    /\ hpc = p
    /\ data = NoData
    /\ current_area_obj = 0
    /\ pending = <<>>
    /\ nnodes = 0
    /\ hrule = ""

HtmlInit == headings \in HeadingLists /\ HtmlState("week")

\* parse_annuaireci is not running
HtmlOff == headings = <<>> /\ HtmlState("off")

\* week_start, week_end = parse_week_range(soup) (line 293)
WeekRange ==
    /\ hpc = "week"
    /\ parse_week_range(headings).kind = "dates"
    /\ hpc' = "anchor"
    /\ data' = [data EXCEPT !.week_start = parse_week_range(headings).ws,
                            !.week_end = parse_week_range(headings).we]
    /\ hrule' = "week"
    /\ UNCHANGED <<headings, current_area_obj, pending, nnodes, pdfVars, fnVars, dbVars>>

\* parse_week_range raises (ScrapingStructureError, or ValueError of dtparse)
WeekRangeRaise ==
    /\ hpc = "week"
    /\ parse_week_range(headings).kind = "raise"
    /\ hpc' = "raised"
    /\ hrule' = IF parse_week_range(headings).exc = "structure" THEN "no_week" ELSE "bad_date"
    /\ UNCHANGED <<headings, data, current_area_obj, pending, nnodes, pdfVars, fnVars, dbVars>>

\* "Liste des pharmacies de garde" in tag.get_text(strip=True) (line 298)
IsAnchor(h) == Contains(strip(h.text), "Liste des pharmacies de garde")

\* parse_annuaireci that takes the page as it is when no heading is the anchor
HasAnchorOrNone == TRUE

HasAnchor == \E i \in 1..Len(headings) : IsAnchor(headings[i])

\* the anchor is found, data is initialised (lines 296-313)
Anchor ==
    /\ hpc = "anchor"
    /\ HasAnchor
    /\ hpc' = "nodes"
    /\ \E t \in Today : data' = [data EXCEPT !.source = "annuaireci", !.scraped_at = t]
    /\ hrule' = "anchor"
    /\ UNCHANGED <<headings, current_area_obj, pending, nnodes, pdfVars, fnVars, dbVars>>

\* raise ScrapingStructureError: no anchor (lines 301-304)
AnchorRaise ==
    /\ hpc = "anchor"
    /\ ~HasAnchor
    /\ hpc' = "raised"
    /\ data' = NoData
    /\ hrule' = "no_anchor"
    /\ UNCHANGED <<headings, current_area_obj, pending, nnodes, pdfVars, fnVars, dbVars>>

\* the loop visits one more node (lines 321, 355)
Visits(tag) ==
    /\ hpc = "nodes"
    /\ nnodes < MaxNodes
    /\ nnodes' = nnodes + 1
    /\ hrule' = tag
    /\ UNCHANGED <<headings, pdfVars, fnVars, dbVars>>

IsStop(n) == n.tag \in {"h2", "h3"} /\ clean_text(n.text) \in STOP_TITLES

\* a heading of STOP_TITLES: break, then the statistics and the return
StopTitle(n) ==
    /\ pending = <<>>
    /\ IsStop(n)
    /\ hpc = "nodes"
    /\ nnodes < MaxNodes
    /\ nnodes' = nnodes + 1
    /\ hrule' = "stop"
    /\ hpc' = "returned"
    /\ UNCHANGED <<headings, data, current_area_obj, pending, pdfVars, fnVars, dbVars>>

\* h3: a new area (lines 331-335)
AreaHeading(n) ==
    /\ pending = <<>>
    /\ n.tag = "h3"
    /\ ~IsStop(n)
    /\ Visits("area")
    /\ hpc' = hpc
    /\ data' = [data EXCEPT !.areas =
                   Append(@, [area |-> clean_text(n.text), pharmacies |-> <<>>])]
    /\ current_area_obj' = Len(data.areas) + 1
    /\ pending' = pending

\* h2 that is no stop title: no branch of the loop body applies
OtherHeading(n) ==
    /\ pending = <<>>
    /\ n.tag = "h2"
    /\ ~IsStop(n)
    /\ Visits("h2")
    /\ hpc' = hpc
    /\ UNCHANGED <<data, current_area_obj, pending>>

\* PharmacyHeading that appends to the first area of the record
PharmacyHeadingFirst(pf) ==
    /\ pending = <<>>
    /\ current_area_obj # 0
    /\ Visits("pharmacy")
    /\ hpc' = hpc
    /\ data' = [data EXCEPT !.areas[1].pharmacies = Append(@, pf.pharmacy)]
    /\ pending' = pf.after
    /\ UNCHANGED current_area_obj

\* h4 under an area: a new pharmacy (lines 338-352)
PharmacyHeading(pf) ==
    /\ pending = <<>>
    /\ current_area_obj # 0
    /\ Visits("pharmacy")
    /\ hpc' = hpc
    /\ data' = [data EXCEPT !.areas[current_area_obj].pharmacies = Append(@, pf.pharmacy)]
    /\ pending' = pf.after
    /\ UNCHANGED current_area_obj

\* h4 before any h3: skipped
OrphanHeading ==
    /\ pending = <<>>
    /\ current_area_obj = 0
    /\ Visits("orphan")
    /\ hpc' = hpc
    /\ UNCHANGED <<data, current_area_obj, pending>>

\* a content node that _collect_pharmacy_details has read already
PendingContent ==
    /\ pending # <<>>
    /\ Visits("content")
    /\ hpc' = hpc
    /\ pending' = Tail(pending)
    /\ UNCHANGED <<data, current_area_obj>>

\* any other content node
FreeContent ==
    /\ pending = <<>>
    /\ Visits("content")
    /\ hpc' = hpc
    /\ UNCHANGED <<data, current_area_obj, pending>>

\* find_next returns None: the statistics and the return (lines 357-369)
EndOfNodes ==
    /\ hpc = "nodes"
    /\ pending = <<>>
    /\ hpc' = "returned"
    /\ hrule' = "end"
    /\ UNCHANGED <<headings, data, current_area_obj, pending, nnodes, pdfVars, fnVars, dbVars>>

HtmlNext ==
    \/ WeekRange
    \/ WeekRangeRaise
    \/ Anchor
    \/ AnchorRaise
    \/ \E n \in HeadingNodes : StopTitle(n) \/ AreaHeading(n) \/ OtherHeading(n)
    \/ \E pf \in PharmacyFacts : PharmacyHeading(pf)
    \/ OrphanHeading
    \/ PendingContent
    \/ FreeContent
    \/ EndOfNodes

(***************************************************************************)
(* The two parsers: one run of parse_unppci_pdf or of parse_annuaireci     *)
(***************************************************************************)
Init == FnIdle /\ DbOff /\ ((PdfInit /\ HtmlOff) \/ (PdfOff /\ HtmlInit))

Next == PdfNext \/ HtmlNext

Spec == Init /\ [][Next]_vars


(***************************************************************************)
(* _try_parse_week called on its own                                       *)
(***************************************************************************)
\* number of week headers that one line of text can hold
MaxHeaders == 2

Days == {"06", "28", "30"}

Months == {"FEVRIER", "MARS", "FOO"}

Years == {"2019", "2026"}

\* headers of layout (a), (b) and (c)
HeadersA == {"SEMAINE DU " \o d1 \o " AU " \o d2 \o " " \o m \o " " \o y :
                d1 \in Days, d2 \in Days, m \in Months, y \in Years}

HeadersB == {"SEMAINE DU " \o d1 \o " " \o m1 \o " AU " \o d2 \o " " \o m2 \o " " \o y :
                d1 \in Days, m1 \in Months, d2 \in {"06", "30"}, m2 \in Months, y \in Years}

HeadersC == {"SEMAINE DU " \o d1 \o " " \o m1 \o " " \o y1 \o " AU 06 " \o m2 \o " " \o y2 :
                d1 \in Days, m1 \in Months, y1 \in Years, m2 \in Months, y2 \in Years}

\* headers with day names, in lower case, with an accent, with a token that
\* two layouts read differently, and texts that are no header
OtherHeaders ==
    { "SEMAINE DU SAMEDI 07 AU VENDREDI 13 FEVRIER 2026",
      "SEMAINE DU SAMEDI 28 FEVRIER AU VENDREDI 06 MARS 2026",
      "Semaine du samedi 28 février 2026 au vendredi 06 mars 2026",
      "SEMAINE DU 07 AU AU 13 MARS 2026",
      "SEMAINE DU 29 AU 30 FEVRIER 2024",
      "SEMAINE DU 7 AU 13 FÉVRIER 2026",
      "SEMAINE DU 07 AU 13",
      "TOUR DE GARDE",
      "" }

\* the headers that a line of several headers is built from
JoinedHeaders ==
    { "SEMAINE DU 06 AU 28 MARS 2026",
      "SEMAINE DU 06 AU 28 FOO 2026",
      "SEMAINE DU 28 FEVRIER AU 06 MARS 2026",
      "SEMAINE DU 28 FOO AU 06 MARS 2026",
      "SEMAINE DU 06 MARS 2019 AU 28 MARS 2019",
      "SEMAINE DU 06 MARS 2019 AU 28 FOO 2019" }

RECURSIVE JoinedLines(_)
\* the lines made of n headers of JoinedHeaders
JoinedLines(n) ==
    IF n = 1 THEN JoinedHeaders
    ELSE {a \o " " \o b : a \in JoinedLines(n - 1), b \in JoinedHeaders}

WeekLines ==
    HeadersA \cup HeadersB \cup HeadersC \cup OtherHeaders
    \cup UNION {JoinedLines(n) : n \in 2..MaxHeaders}

WeekInit ==
    arg \in WeekLines /\ fn = "" /\ ret = NoRet /\ PdfOff /\ HtmlOff /\ DbOff

\* _try_parse_week(arg) (lines 141-171)
CallTryParseWeek ==
    /\ fn = ""
    /\ arg \in WeekLines
    /\ fn' = "_try_parse_week"
    /\ ret' = _try_parse_week(arg)
    /\ UNCHANGED <<arg, pdfVars, htmlVars, dbVars>>

WeekNext == CallTryParseWeek

SpecWeek == WeekInit /\ [][WeekNext]_vars

(***************************************************************************)
(* The two extract_phones called on their own                              *)
(***************************************************************************)
\* number of pieces that one text is made of
MaxParts == 3

\* digit runs of 10, 8, 9, 18, 20 and 13 digits, separators and words
PhonePieces ==
    { "0769353909", "21240000", "076935390", "076935390921240000",
      "07693539090769353909", "0769353909123", "/", " ", ",", "TEL " }

RECURSIVE PhoneTextsOf(_)
\* the texts made of n pieces
PhoneTextsOf(n) ==
    IF n = 1 THEN PhonePieces
    ELSE {a \o b : a \in PhoneTextsOf(n - 1), b \in PhonePieces}

PhoneTexts == UNION {PhoneTextsOf(n) : n \in 1..MaxParts}

NoPhones == [kind |-> "phones", called |-> {}, pdf |-> <<>>, html |-> <<>>]

PhonesInit ==
    arg \in PhoneTexts /\ fn = "" /\ ret = NoPhones /\ PdfOff /\ HtmlOff /\ DbOff

\* extract_phones(arg) of unppci_parse_pdf (lines 174-189)
CallPdfExtractPhones ==
    /\ arg \in PhoneTexts
    /\ "pdf" \notin ret.called
    /\ fn' = "unppci_parse_pdf.extract_phones"
    /\ ret' = [ret EXCEPT !.called = @ \cup {"pdf"}, !.pdf = pdf_extract_phones(arg)]
    /\ UNCHANGED <<arg, pdfVars, htmlVars, dbVars>>

\* extract_phones(arg) of annuaireci_scrape (lines 179-206)
CallHtmlExtractPhones ==
    /\ arg \in PhoneTexts
    /\ "html" \notin ret.called
    /\ fn' = "annuaireci_scrape.extract_phones"
    /\ ret' = [ret EXCEPT !.called = @ \cup {"html"}, !.html = html_extract_phones(arg)]
    /\ UNCHANGED <<arg, pdfVars, htmlVars, dbVars>>

PhonesNext == CallPdfExtractPhones \/ CallHtmlExtractPhones

SpecPhones == PhonesInit /\ [][PhonesNext]_vars

(***************************************************************************)
(* The pharmacy branch of parse_annuaireci called on its own               *)
(***************************************************************************)
RECURSIVE SeqsUpTo(_, _)
\* the sequences of at most n elements of S
SeqsUpTo(S, n) ==
    IF n = 0 THEN {<<>>}
    ELSE SeqsUpTo(S, n - 1)
         \cup {Append(b, x) : b \in {c \in SeqsUpTo(S, n - 1) : Len(c) = n - 1}, x \in S}

\* number of nodes that follow the h4
MaxSiblings == 3

\* the nodes that can follow an h4: the blocks and a heading
DetailNodes == Blocks \cup { [tag |-> "h3", text |-> "COCODY"] }

DetailsInit ==
    /\ arg \in [wrapped : BOOLEAN, nodes : SeqsUpTo(DetailNodes, MaxSiblings)]
    /\ fn = ""
    /\ ret = NoRet
    /\ PdfOff
    /\ HtmlOff
    /\ DbOff

\* the details and the pharmacy dict of the h4 branch (lines 340-351)
PharmacyOf(details) ==
    [kind |-> "pharmacy", details |-> details,
     pharmacy |-> HtmlPharmacy("Pharmacie des Arts", details)]

\* the h4 branch for an h4 followed by arg.nodes (lines 339-351)
CallCollectDetails ==
    /\ fn = ""
    /\ fn' = "_collect_pharmacy_details"
    /\ ret' = PharmacyOf(_collect_pharmacy_details(arg.wrapped, arg.nodes))
    /\ UNCHANGED <<arg, pdfVars, htmlVars, dbVars>>

DetailsNext == CallCollectDetails

SpecDetails == DetailsInit /\ [][DetailsNext]_vars

(***************************************************************************)
(* Week headers: claims C1, C2, C3                                         *)
(***************************************************************************)
\* an ISO date as the number yyyymmdd
DateKey(iso) == int(Sub(iso, 1, 4)) * 10000 + int(Sub(iso, 6, 7)) * 100 + int(Sub(iso, 9, 10))

\* C1: whenever _try_parse_week accepts a line and returns two dates, the
\* start date is not after the end date.
C1_StartNotAfterEnd ==
    (fn = "_try_parse_week" /\ ret.kind = "dates") => DateKey(ret.ws) <= DateKey(ret.we)

\* what layout (c) gives for the groups g of its match
ExpectC(g) ==
    WeekResult("c", fr_date_to_iso(g[1], g[2], g[3]), fr_date_to_iso(g[4], g[5], g[6]))

\* what layout (b) gives for the groups g of its match: two months, one year
ExpectB(g) ==
    WeekResult("b", fr_date_to_iso(g[1], g[2], g[5]), fr_date_to_iso(g[3], g[4], g[5]))

\* the result that the order (c), (b), (a) prescribes for a line whose
\* searches gave mc and mb, when (c) or (b) matches
ExpectCB(mc, mb, r) ==
    /\ mc.ok => r = ExpectC(mc.g)
    /\ (~mc.ok /\ mb.ok) => r = ExpectB(mb.g)

\* C2: a line that matches layout (c) is resolved by (c), with its two
\* day/month/year triples, whatever else matches; a line that matches (b)
\* and not (c) is resolved by (b) with its two months and the shared year.
C2_LayoutOrder ==
    fn = "_try_parse_week" =>
        ExpectCB(Search(WEEK_RE_C, arg), Search(WEEK_RE_B, arg), ret)

\* a line that layouts (a) and (c) both match has been resolved by (c)
C2_Witness ==
    /\ fn = "_try_parse_week"
    /\ Search(WEEK_RE_C, arg).ok
    /\ Search(WEEK_RE_A, arg).ok
    /\ ret.kind = "dates"
    /\ ret.layout = "c"
    /\ ret.ws = "2019-03-06"

\* the month tokens of the match that resolves a line: the groups of the
\* first layout, in the order (c), (b), (a), that matches
MonthTokens(mc, mb, ma) ==
    IF mc.ok THEN {mc.g[2], mc.g[5]}
    ELSE IF mb.ok THEN {mb.g[2], mb.g[4]}
    ELSE IF ma.ok THEN {ma.g[3]}
    ELSE {}

\* the line has the shape of a week header and one of its month tokens is
\* no key of MONTHS
UnknownMonthLine(l) ==
    \E m \in MonthTokens(Search(WEEK_RE_C, l), Search(WEEK_RE_B, l), Search(WEEK_RE_A, l)) :
        upper(m) \notin DOMAIN MONTHS

\* UnknownMonthLine of every cleaned line of the PDF
UnknownMonth == [l \in {f.line : f \in PdfFacts} |-> UnknownMonthLine(l)]

\* the step reads a line
ReadsLine == nlines' = nlines + 1

\* C3: a line with the shape of a week header and an unknown month token
\* aborts the parse: no Period is opened, no other rule takes the line, the
\* areas stay as they were, and after the abort nothing is returned.
C3_UnknownMonthAborts ==
    [][ /\ (ReadsLine /\ UnknownMonth[line']) =>
              /\ pc' = "raised"
              /\ rule' = "raise"
              /\ UNCHANGED <<weeks, current_week, current_area, area_by_name>>
              /\ payload' = NoPayload
        /\ pc = "raised" => (pc' = "raised" /\ payload' = NoPayload)
      ]_vars

\* the parse was aborted by a header with an unknown month after a Period
\* had been opened
C3_Witness ==
    /\ pc = "raised"
    /\ rule = "raise"
    /\ UnknownMonth[line]
    /\ weeks # <<>>
    /\ payload = NoPayload

(***************************************************************************)
(* Phone extraction: claims C4, C5                                         *)
(***************************************************************************)
\* the blocks that the 10-then-8 policy prescribes for a fragment of digits d
PolicyBlocks(d) ==
    IF Len(d) \in {8, 10} THEN <<d>>
    ELSE IF Len(d) > 10
    THEN [k \in 1..(Len(d) \div 10) |-> Sub(d, 10 * k - 9, 10 * k)]
         \o (IF Len(d) % 10 = 8 THEN <<Sub(d, Len(d) - 7, Len(d))>> ELSE <<>>)
    ELSE <<>>

RECURSIVE PolicyAll(_)
\* the blocks of all the fragments, in the order of the fragments
PolicyAll(parts) ==
    IF parts = <<>> THEN <<>>
    ELSE PolicyBlocks(OnlyDigits(Head(parts))) \o PolicyAll(Tail(parts))

\* C4: extract_phones of the HTML path returns, for the fragments between the
\* separators / | , ; taken in order, an 8- or 10-digit fragment as it is,
\* for a longer one floor(n/10) blocks of 10 digits from the front and a last
\* block of 8 digits iff n mod 10 = 8, nothing for the other lengths; numbers
\* seen before are dropped.
C4_GreedyTenThenEight ==
    "html" \in ret.called =>
        ret.html = DedupStable(PolicyAll(SplitOn(arg, PhoneSeps)), <<>>)

\* a 9-digit fragment gave nothing and the run of 18 digits after it gave a
\* block of 10 and a block of 8
C4_Witness ==
    /\ "html" \in ret.called
    /\ arg = "076935390,076935390921240000"
    /\ ret.html = <<"0769353909", "21240000">>

\* C5: for every text the two extract_phones return the same list.
C5_SamePolicy ==
    ret.called = {"pdf", "html"} => ret.pdf = ret.html

(***************************************************************************)
(* The line classifier of parse_unppci_pdf: claims C6 to C10               *)
(***************************************************************************)
\* the cleaned lines that the loop can read
CleanLines == {f.line : f \in PdfFacts}

\* every pharmacy of the PDF parse, as <<period, area, pharmacy>>
PdfPharmacies ==
    {t \in (1..Len(weeks)) \X (1..MaxLines) \X (1..MaxLines) :
        /\ t[2] <= Len(weeks[t[1]].areas)
        /\ t[3] <= Len(weeks[t[1]].areas[t[2]].pharmacies)}

\* every pharmacy of the HTML parse, as <<area, pharmacy>>
HtmlPharmacies ==
    {t \in (1..Len(data.areas)) \X (1..MaxNodes) :
        t[2] <= Len(data.areas[t[1]].pharmacies)}

PdfPhonesAt(ws, t) == ws[t[1]].areas[t[2]].pharmacies[t[3]].phones_raw

HtmlPhonesAt(d, t) == d.areas[t[1]].pharmacies[t[2]].phones_raw

\* 8 or 10 decimal digits each, no number twice
PhoneList(ps) ==
    /\ \A k \in 1..Len(ps) :
          /\ Len(ps[k]) \in {8, 10}
          /\ \A i \in 1..Len(ps[k]) : Ch(ps[k], i) \in Digits
    /\ \A j, k \in 1..Len(ps) : ps[j] = ps[k] => j = k

IsPrefix(p, q) == Len(p) <= Len(q) /\ SubSeq(q, 1, Len(p)) = p

Elems(q) == {q[k] : k \in 1..Len(q)}

\* the numbers of each cleaned line, as extract_phones gives them
LinePhones == [l \in CleanLines |-> pdf_extract_phones(l)]

\* C6: the phones_raw of every pharmacy of the PDF parse and of the HTML
\* parse holds strings of exactly 8 or 10 decimal digits and no number twice;
\* a step never removes or moves a number that a pharmacy has: the old list
\* is a prefix of the new one, and a continuation line adds to the last
\* pharmacy exactly the numbers of the line that the pharmacy has not yet.
C6_PhonesOrderedSet ==
    /\ [](/\ \A t \in PdfPharmacies : PhoneList(PdfPhonesAt(weeks, t))
          /\ \A t \in HtmlPharmacies : PhoneList(HtmlPhonesAt(data, t)))
    /\ [][ /\ \A t \in PdfPharmacies :
                IsPrefix(PdfPhonesAt(weeks, t), PdfPhonesAt(weeks', t))
           /\ \A t \in HtmlPharmacies :
                IsPrefix(HtmlPhonesAt(data, t), HtmlPhonesAt(data', t))
           /\ rule' = "phone" /\ nlines' = nlines + 1 =>
                LET t == <<current_week, current_area,
                           Len(weeks[current_week].areas[current_area].pharmacies)>>
                IN  Elems(PdfPhonesAt(weeks', t)) =
                        Elems(PdfPhonesAt(weeks, t)) \cup Elems(LinePhones[line'])
         ]_vars

\* a continuation line repeated a number of the pharmacy and brought a new
\* one: the new one went to the end
C6_Witness ==
    /\ rule = "phone"
    /\ line = "07 69 35 39 09 / 21 24 00 00"
    /\ current_area # 0
    /\ \E k \in 1..Len(weeks[current_week].areas[current_area].pharmacies) :
          weeks[current_week].areas[current_area].pharmacies[k].phones_raw =
              <<"0769353909", "0509098877", "21240000">>

\* the labels of the areas, period by period
AreaLabels(ws) == [w \in 1..Len(ws) |-> [a \in 1..Len(ws[w].areas) |-> ws[w].areas[a].area]]

\* the cleaned line holds a word of the address vocabulary
HasAddressKeyword == [l \in CleanLines |-> AccWords(strip(upper(l))) \cap ADDRESS_KEYWORDS # {}]

KeywordEnds(l, i) ==
    {i + Len(kw) : kw \in {w \in {"PHCIE", "PHARMACIE"} :
        /\ i > 1
        /\ Ch(l, i - 1) \in Whitespace
        /\ upper(Sub(l, i, i + Len(w) - 1)) = w
        /\ i + Len(w) <= Len(l)
        /\ Ch(l, i + Len(w)) \in Whitespace}}

\* position of the first pharmacy keyword of the line
FirstKeyword(l) == Min({i \in 1..Len(l) : KeywordEnds(l, i) # {}})

\* the text up to the first separator (dash, slash, TEL)
UpToSeparator(t) ==
    Sub(t, 1, Min({i \in 1..Len(t) : NameSepAt(t, i)} \cup {Len(t) + 1}) - 1)

\* the city span of a pharmacy line with the city as prefix
CitySpan(l) == upper(strip(Sub(l, 1, FirstKeyword(l) - 1)))

\* the pharmacy keyword of the line
KeywordOf(l) == Sub(l, FirstKeyword(l), Min(KeywordEnds(l, FirstKeyword(l))) - 1)

\* the text between the pharmacy keyword and the first separator
NameAfterKeyword(l) ==
    clean(strip(UpToSeparator(strip(Sub(l, Min(KeywordEnds(l, FirstKeyword(l))), Len(l))))))

\* the area and the pharmacy that the line just read was given to
AreaOfLine == weeks[current_week].areas[current_area]

PharmacyOfLine == AreaOfLine.pharmacies[Len(AreaOfLine.pharmacies)]

\* C8 as the specification words it: the line
\* "ABENGOUROU PHCIE DU MARCHE / MME KOFFI" gives the area "ABENGOUROU" a
\* pharmacy named "PHCIE DU MARCHE"; for every pharmacy line with the city
\* as prefix the label is the city span and the name is the pharmacy keyword
\* and the text up to the first separator.
C8_NameWithKeyword ==
    rule = "pharmacy_city" =>
        /\ AreaOfLine.area = CitySpan(line)
        /\ PharmacyOfLine.name_raw = KeywordOf(line) \o " " \o NameAfterKeyword(line)
        /\ line = "ABENGOUROU PHCIE DU MARCHE / MME KOFFI" =>
              /\ AreaOfLine.area = "ABENGOUROU"
              /\ PharmacyOfLine.name_raw = "PHCIE DU MARCHE"

\* C8: the line "ABENGOUROU PHCIE DU MARCHE / MME KOFFI" gives the area
\* "ABENGOUROU" a new pharmacy named "DU MARCHE"; for every pharmacy line
\* with the city as prefix the label of the area is the city span in upper
\* case and the name is the text between the pharmacy keyword and the first
\* separator (dash, slash or TEL), the keyword left out; the address of the
\* new pharmacy is empty.
C8_NameAfterKeyword ==
    rule = "pharmacy_city" =>
        /\ AreaOfLine.area = CitySpan(line)
        /\ PharmacyOfLine.name_raw = NameAfterKeyword(line)
        /\ PharmacyOfLine.address_raw = ""
        /\ line = "ABENGOUROU PHCIE DU MARCHE / MME KOFFI" =>
              /\ AreaOfLine.area = "ABENGOUROU"
              /\ PharmacyOfLine.name_raw = "DU MARCHE"

\* the line "ABENGOUROU PHCIE DU MARCHE / MME KOFFI" was read with a period
\* open and gave a pharmacy to the area "ABENGOUROU"
C8_Witness ==
    /\ rule = "pharmacy_city"
    /\ line = "ABENGOUROU PHCIE DU MARCHE / MME KOFFI"
    /\ AreaOfLine.area = "ABENGOUROU"
    /\ PharmacyOfLine.name_raw = "DU MARCHE"

\* C9: a continuation line changes nothing but the last pharmacy of
\* current_area: the periods, the areas and all the other pharmacies are as
\* before, and so are the open period, the current area and the registry of
\* the areas; the name of the last pharmacy stays.
C9_ContinuationFrame ==
    [][ (nlines' = nlines + 1 /\ rule' \in {"phone", "address"}) =>
            /\ current_area # 0
            /\ weeks[current_week].areas[current_area].pharmacies # <<>>
            /\ weeks' =
                 [weeks EXCEPT ![current_week].areas[current_area].pharmacies
                                  [Len(weeks[current_week].areas[current_area].pharmacies)] =
                     [@ EXCEPT !.address_raw =
                                   weeks'[current_week].areas[current_area].pharmacies
                                       [Len(weeks[current_week].areas[current_area].pharmacies)].address_raw,
                               !.phones_raw =
                                   weeks'[current_week].areas[current_area].pharmacies
                                       [Len(weeks[current_week].areas[current_area].pharmacies)].phones_raw]]
            /\ UNCHANGED <<current_week, current_area, area_by_name>>
      ]_vars

\* an address line was read under an area with two pharmacies or more: it
\* went to the last one and the first one has no address
C9_Witness ==
    /\ rule = "address"
    /\ current_area # 0
    /\ Len(AreaOfLine.pharmacies) >= 2
    /\ AreaOfLine.pharmacies[1].address_raw = ""
    /\ PharmacyOfLine.address_raw # ""

\* the cleaned line matches one of the three layouts of the week header
IsWeekHeader ==
    [l \in CleanLines |->
        Search(WEEK_RE_A, l).ok \/ Search(WEEK_RE_B, l).ok \/ Search(WEEK_RE_C, l).ok]

\* C10: as long as no week header was matched, a line that is not a week
\* header changes neither the periods nor the current period and area, and
\* does not abort the parse; no period is open means no period exists; the
\* parse that ends then returns a payload with no period, and the warning
\* is given.
C10_PreWeekDiscarded ==
    /\ [][ /\ (nlines' = nlines + 1 /\ current_week = 0 /\ ~IsWeekHeader[line']) =>
                /\ pc' = pc
                /\ UNCHANGED <<weeks, current_week, current_area, area_by_name>>
           /\ (current_week = 0 /\ pc' = "returned" /\ pc # "returned") =>
                /\ payload'.source = "unppci"
                /\ payload'.weeks = <<>>
                /\ warned'
         ]_vars
    /\ [](current_week = 0 => weeks = <<>> /\ current_area = 0)

\* the parse returned after lines that were all read before any week header
C10_Witness ==
    /\ pc = "returned"
    /\ current_week = 0
    /\ nlines >= 2
    /\ line # ""
    /\ payload.source = "unppci"
    /\ payload.weeks = <<>>
    /\ warned

(***************************************************************************)
(* parse_annuaireci: claims C11, C16, C17                                  *)
(***************************************************************************)
\* a heading of the page matches "Semaine du dd/mm/yyyy au dd/mm/yyyy"
PageHasWeek ==
    \E i \in 1..Len(headings) :
        \E j \in 1..Len(clean_text(headings[i].text)) :
            /\ upper(Sub(clean_text(headings[i].text), j, j + 10)) = "SEMAINE DU "
            /\ Contains(upper(Sub(clean_text(headings[i].text), j + 11, j + 25)), " AU ")

\* a heading of the page holds the anchor phrase
PageHasAnchor ==
    \E i \in 1..Len(headings) : Contains(headings[i].text, "Liste des pharmacies de garde")

MaxDocLines == 3

\* the lines of the documents that are parsed twice, after clean (line 301)
DocLines ==
    {f.line : f \in PdfFacts} \ { "SEMAINE DU 24 AU 30 FEVRIER 2026",
                                  "GRAND-BASSAM",
                                  "Grand-Bassam Pharmacie de la Paix - TEL 21301234",
                                  "PHARMACIE STE ANNE - TEL 21240000",
                                  "PHCIE / 21240000",
                                  "PHCIE STE ANNE PHARMACIE DU PLATEAU / 21240000",
                                  "ROUTE ABENGOUROU PHCIE DU PONT",
                                  "PRES DU PONT TEL: 05 09 09 88 77" }

TwiceInit ==
    /\ fn = ""
    /\ ret = NoRet
    /\ DbOff
    /\ \/ arg \in SeqsUpTo(DocLines, MaxDocLines) /\ PdfInit /\ HtmlOff
       \/ arg \in SeqsUpTo(HeadingNodes, MaxDocLines) /\ PdfOff /\ HtmlInit

\* the loop body on the next line of the document
DocLine ==
    /\ pc = "lines"
    /\ nlines < Len(arg)
    /\ \E f \in PdfFacts :
          /\ f.line = arg[nlines + 1]
          /\ \/ SkipEmpty(f)
             \/ WeekNew(f)
             \/ WeekRepeat(f)
             \/ WeekRaise(f)
             \/ PreWeek(f)
             \/ Boilerplate(f)
             \/ AreaLine(f)
             \/ CityPharmacy(f)
             \/ PlainPharmacy(f)
             \/ ContinuationPhone(f)
             \/ ContinuationAddress(f)
             \/ Unclassified(f)

\* the first parse has the document on one page, the second one has it cut
\* into pages anywhere
DocPage == fn = "again" /\ pc = "lines" /\ nlines < Len(arg) /\ NextPage

DocReturn == pc = "lines" /\ nlines = Len(arg) /\ Return

\* parse_unppci_pdf is called again on the same document
AgainPdf ==
    /\ pc \in {"returned", "raised"}
    /\ fn = ""
    /\ fn' = "again"
    /\ ret' = [kind |-> "first", pc |-> pc, record |-> payload]
    /\ weeks' = <<>>
    /\ current_week' = 0
    /\ current_area' = 0
    /\ area_by_name' = NoArea
    /\ pc' = "lines"
    /\ payload' = NoPayload
    /\ warned' = FALSE
    /\ line' = ""
    /\ rule' = ""
    /\ nlines' = 0
    /\ UNCHANGED <<arg, htmlVars, dbVars>>

\* the statements of parse_annuaireci up to the loop
DocHead == WeekRange \/ WeekRangeRaise \/ Anchor \/ AnchorRaise

\* the loop body on the next node of the document
DocNode ==
    /\ hpc = "nodes"
    /\ nnodes < Len(arg)
    /\ \E n \in HeadingNodes :
          /\ n = arg[nnodes + 1]
          /\ (StopTitle(n) \/ AreaHeading(n) \/ OtherHeading(n))

DocEnd == hpc = "nodes" /\ nnodes = Len(arg) /\ EndOfNodes

\* parse_annuaireci is called again on the same document
AgainHtml ==
    /\ hpc \in {"returned", "raised"}
    /\ fn = ""
    /\ fn' = "again"
    /\ ret' = [kind |-> "first", pc |-> hpc, record |-> data]
    /\ hpc' = "week"
    /\ data' = NoData
    /\ current_area_obj' = 0
    /\ pending' = <<>>
    /\ nnodes' = 0
    /\ hrule' = ""
    /\ UNCHANGED <<headings, arg, pdfVars, dbVars>>

TwiceNext ==
    \/ DocLine
    \/ DocPage
    \/ DocReturn
    \/ AgainPdf
    \/ DocHead
    \/ DocNode
    \/ DocEnd
    \/ AgainHtml

SpecTwice == TwiceInit /\ [][TwiceNext]_vars

\* C12: the second parse of a document returns the record that the first
\* parse returned, equal in every field.
C12_SameRecord ==
    /\ (fn = "again" /\ pc = "returned") => payload = ret.record
    /\ (fn = "again" /\ hpc = "returned") => data = ret.record

\* C19: with the document cut into pages anywhere, the parse ends as the
\* parse of the document on one page ended and returns the same weeks; a
\* page boundary leaves the periods, the open period, the current area and
\* the registry of the areas as they were.
C19_PagesInvisible ==
    /\ [](/\ (fn = "again" /\ pc = "returned") =>
                (ret.pc = "returned" /\ payload.weeks = ret.record.weeks)
          /\ (fn = "again" /\ pc = "raised") => ret.pc = "raised")
    /\ [][ (rule' = "page" /\ rule # "page") =>
               UNCHANGED <<weeks, current_week, current_area, area_by_name, pc, nlines>>
         ]_vars

\* the second parse is at a page boundary in the middle of the document,
\* with an area open and a pharmacy line to come
C19_Witness ==
    /\ fn = "again"
    /\ rule = "page"
    /\ current_area # 0
    /\ nlines = 2
    /\ Len(arg) = 3
    /\ arg[3] = "PHCIE DES ARTS / 0769353909/0509098877"

(***************************************************************************)
(* The line classifier of parse_unppci_pdf: claims C13 to C15, C18, C20    *)
(***************************************************************************)
\* C13: a line aborts the parse only if it has the shape of a week header
\* and a month token that is not a month name; every other line, the week
\* headers with a known month and any day numbers among them, is consumed
\* or dropped and the loop goes on.
C13_OnlyUnknownMonthAborts ==
    [][ (nlines' = nlines + 1 /\ ~UnknownMonth[line']) => (pc' = "lines" /\ rule' # "raise")
      ]_vars

\* the dates that each cleaned line resolves to as a week header
ResolvedDates == [l \in CleanLines |-> _try_parse_week(l)]

\* C14: a week header whose dates are those of the latest Period adds no
\* Period and leaves the open period, current_area and the registry as they
\* were; a week header with other dates (or the first one) appends a Period
\* with these dates and no area, makes it the open period, sets current_area
\* to none and empties the registry; no other rule takes the line.
C14_RepeatedHeader ==
    [][ (nlines' = nlines + 1 /\ ResolvedDates[line'].kind = "dates") =>
           IF /\ weeks # <<>>
              /\ weeks[Len(weeks)].week_start = ResolvedDates[line'].ws
              /\ weeks[Len(weeks)].week_end = ResolvedDates[line'].we
           THEN /\ rule' = "week_repeat"
                /\ pc' = pc
                /\ UNCHANGED <<weeks, current_week, current_area, area_by_name>>
           ELSE /\ rule' = "week"
                /\ pc' = pc
                /\ weeks' = Append(weeks, [week_start |-> ResolvedDates[line'].ws,
                                           week_end |-> ResolvedDates[line'].we,
                                           areas |-> <<>>])
                /\ current_week' = Len(weeks) + 1
                /\ current_area' = 0
                /\ area_by_name' = <<>>
      ]_vars

\* the header of the open period was read again under an area that has a
\* pharmacy: the area is still the current one
C14_Witness ==
    /\ rule = "week_repeat"
    /\ Len(weeks) = 1
    /\ current_area # 0
    /\ AreaOfLine.pharmacies # <<>>
    /\ DOMAIN area_by_name # {}

\* a label with the case and the white space folded
Fold(label) == CollapseWs(strip(upper(label)))

\* the areas of period w whose label folds to the folded label
SameLabel(ws, w, label) ==
    {a \in 1..Len(ws[w].areas) : Fold(ws[w].areas[a].area) = Fold(label)}

\* the label that the line just read gives to its area
LabelOfLine(r, l) == IF r = "area" THEN l ELSE CitySpan(l)

\* C15: no Period has two Areas whose labels are equal after the case and
\* the white space are folded; a line taken as an area, or as a pharmacy
\* with its city as prefix, whose label is that of an Area of the open
\* period makes this Area current_area and adds no Area; otherwise it
\* appends an Area with this label and makes it current_area.
C15_AreaUniquePerPeriod ==
    /\ [](\A w \in 1..Len(weeks) : \A a, b \in 1..Len(weeks[w].areas) :
             Fold(weeks[w].areas[a].area) = Fold(weeks[w].areas[b].area) => a = b)
    /\ [][ (nlines' = nlines + 1 /\ rule' \in {"area", "pharmacy_city"}) =>
              IF SameLabel(weeks, current_week, LabelOfLine(rule', line')) # {}
              THEN /\ Len(weeks'[current_week].areas) = Len(weeks[current_week].areas)
                   /\ current_area' \in SameLabel(weeks, current_week, LabelOfLine(rule', line'))
              ELSE /\ Len(weeks'[current_week].areas) = Len(weeks[current_week].areas) + 1
                   /\ current_area' = Len(weeks[current_week].areas) + 1
                   /\ Fold(weeks'[current_week].areas[current_area'].area) =
                          Fold(LabelOfLine(rule', line'))
         ]_vars

\* a second pharmacy line with the same city as prefix was read: it went to
\* the area of the first one
C15_Witness ==
    /\ rule = "pharmacy_city"
    /\ nlines = 3
    /\ Len(weeks) = 1
    /\ Len(weeks[1].areas) = 1
    /\ Len(weeks[1].areas[1].pharmacies) = 2
    /\ current_area = 1

\* C16: in the record that parse_annuaireci returns no two Areas have labels
\* that are equal after the case and the white space are folded.
C16_HtmlAreaUnique ==
    hpc = "returned" =>
        \A a, b \in 1..Len(data.areas) :
            Fold(data.areas[a].area) = Fold(data.areas[b].area) => a = b

\* C17: the traversal stops at the first heading (h2, h3 or h4) whose text
\* is a stop title, so no Area and no pharmacy of the record comes from such
\* a heading; an h3 whose text is no stop title does not stop the traversal.
C17_StopAtAnyLevel ==
    /\ [](\A a \in 1..Len(data.areas) :
             /\ data.areas[a].area \notin STOP_TITLES
             /\ \A k \in 1..Len(data.areas[a].pharmacies) :
                   data.areas[a].pharmacies[k].name_raw \notin STOP_TITLES)
    /\ [][ /\ hrule' = "stop" /\ nnodes' = nnodes + 1 => hpc' = "returned" /\ data' = data
           /\ hrule' = "area" /\ nnodes' = nnodes + 1 => hpc' = "nodes"
           /\ hpc = "returned" => data' = data
         ]_vars

\* C18: every pharmacy of the PDF parse and of the HTML parse has a name_raw
\* that is not empty.
C18_NameNotEmpty ==
    /\ \A t \in PdfPharmacies : weeks[t[1]].areas[t[2]].pharmacies[t[3]].name_raw # ""
    /\ \A t \in HtmlPharmacies : data.areas[t[1]].pharmacies[t[2]].name_raw # ""

C21_CityRule ==
    [][ ReadsLine =>
          /\ rule' = "pharmacy_city" =>
                /\ CITY_PHARM_RE(line').ok
                /\ Len(CityPrefix(CITY_PHARM_RE(line'))) >= 3
                /\ SplitWs(CityPrefix(CITY_PHARM_RE(line'))) \cap ADDRESS_KEYWORDS = {}
                /\ current_area' # 0
                /\ weeks'[current_week].areas[current_area'].area
                       = CityPrefix(CITY_PHARM_RE(line'))
                /\ Len(weeks'[current_week].areas) \in
                       {Len(weeks[current_week].areas), Len(weeks[current_week].areas) + 1}
                /\ \A k \in 1..Len(weeks[current_week].areas) :
                       weeks'[current_week].areas[k].area = weeks[current_week].areas[k].area
          /\ ( /\ CITY_PHARM_RE(line').ok
               /\ SplitWs(CityPrefix(CITY_PHARM_RE(line'))) \cap ADDRESS_KEYWORDS # {} ) =>
                /\ rule' \in {"ignored_pre_week", "pharmacy", "phone", "address", "unclassified"}
                /\ rule' = "pharmacy" <=>
                       (current_week # 0 /\ PHARM_RE(line').ok /\ current_area # 0)
                /\ rule' \in {"phone", "address"} =>
                       /\ ~PHARM_RE(line').ok
                       /\ weeks[current_week].areas[current_area].pharmacies # <<>>
                /\ rule' \in {"ignored_pre_week", "unclassified"} => weeks' = weeks
                /\ UNCHANGED <<current_week, current_area, area_by_name>>
                /\ current_week # 0 =>
                       /\ Len(weeks'[current_week].areas) = Len(weeks[current_week].areas)
                       /\ \A k \in 1..Len(weeks[current_week].areas) :
                              weeks'[current_week].areas[k].area = weeks[current_week].areas[k].area
      ]_vars

\* a line whose city span holds an address keyword was read under an area
\* with a pharmacy and went to the address of that pharmacy
C21_Witness ==
    /\ rule = "address"
    /\ CITY_PHARM_RE(line).ok
    /\ SplitWs(CityPrefix(CITY_PHARM_RE(line))) \cap ADDRESS_KEYWORDS # {}
    /\ current_area # 0
    /\ PharmacyOfLine.address_raw = line

\* C22: no area of the PDF parse has a label that contains a pharmacy
\* keyword, PHCIE or PHARMACIE, whether the area test or the city rule made
\* the area.
C22_NoKeywordInLabel ==
    \A w \in 1..Len(weeks) : \A a \in 1..Len(weeks[w].areas) :
        /\ ~Contains(weeks[w].areas[a].area, "PHCIE")
        /\ ~Contains(weeks[w].areas[a].area, "PHARMACIE")

\* C23: a continuation line with a phone-like run of digits appends to the
\* last pharmacy, in order, the numbers of the line that the pharmacy has not
\* yet, and appends the text left after the numbers to the address after one
\* space, unless that text is empty or made of digits and separators only;
\* a continuation line without such a run is appended whole to the address
\* after one space and leaves the numbers as they were.
C23_ContinuationMerge ==
    [][ (ReadsLine /\ rule' \in {"phone", "address"}) =>
          LET old == PharmacyOfLine
              new == weeks'[current_week].areas[current_area].pharmacies
                         [Len(AreaOfLine.pharmacies)]
              fresh(ph) == \A k \in 1..Len(old.phones_raw) : old.phones_raw[k] # ph
              joined(text) == IF old.address_raw = "" THEN text
                              ELSE old.address_raw \o " " \o text
              rest == strip_phones_from_line(line')
          IN  /\ new.name_raw = old.name_raw
              /\ IF PhoneLikeSearch(line', PdfPairSeps)
                 THEN /\ rule' = "phone"
                      /\ new.phones_raw = old.phones_raw \o SelectSeq(LinePhones[line'], fresh)
                      /\ new.address_raw =
                           IF rest # "" /\ ~_is_pure_digits_line(rest)
                           THEN joined(rest) ELSE old.address_raw
                 ELSE /\ rule' = "address"
                      /\ new.phones_raw = old.phones_raw
                      /\ new.address_raw = joined(line')
      ]_vars

\* a line with text and a number was read under a pharmacy that had an
\* address and a number already: the text went behind the address and the
\* number behind the numbers
C23_Witness ==
    /\ rule = "phone"
    /\ current_area # 0
    /\ strip_phones_from_line(line) # ""
    /\ Len(PharmacyOfLine.address_raw) > Len(strip_phones_from_line(line)) + 1
    /\ Len(PharmacyOfLine.phones_raw) >= 2
    /\ PharmacyOfLine.phones_raw[Len(PharmacyOfLine.phones_raw)] = LinePhones[line][1]

\* C26: the periods of the payload that parse_unppci_pdf returns have
\* pairwise different pairs of week_start and week_end.
C26_PeriodsDistinct ==
    pc = "returned" =>
        \A i, j \in 1..Len(payload.weeks) :
            i # j => <<payload.weeks[i].week_start, payload.weeks[i].week_end>>
                       # <<payload.weeks[j].week_start, payload.weeks[j].week_end>>

(***************************************************************************)
(* _collect_pharmacy_details: claims C24, C27                              *)
(***************************************************************************)
RECURSIVE BeforeHeading(_)
\* the nodes that come before the first heading
BeforeHeading(nodes) ==
    IF nodes = <<>> THEN <<>>
    ELSE IF Head(nodes).tag \in HEADING_TAGS THEN <<>>
    ELSE <<Head(nodes)>> \o BeforeHeading(Tail(nodes))

\* the texts of the nodes that are not empty
TextsOf(nodes) ==
    SelectSeq([k \in 1..Len(nodes) |-> clean_text(nodes[k].text)], LAMBDA t : t # "")

\* the texts of the siblings of the h4 before the first heading
WalkTexts == TextsOf(BeforeHeading(IF arg.wrapped THEN <<>> ELSE arg.nodes))

\* the texts of the content nodes after the h4 before the first heading,
\* each text once
ScanTexts ==
    DedupStable(TextsOf(SelectSeq(BeforeHeading(arg.nodes),
                                  LAMBDA x : x.tag \in CONTENT_TAGS)), <<>>)

RECURSIVE Glue(_)
\* the texts, each one after a space
Glue(texts) == IF texts = <<>> THEN "" ELSE " " \o Head(texts) \o Glue(Tail(texts))

IsPhoneText(t) == PhoneLikeSearch(t, HtmlPairSeps)

\* the address blocks and the phone text that a sequence of texts gives
Gathered(texts) ==
    [address_lines |-> SelectSeq(texts, LAMBDA t : ~IsPhoneText(t)),
     phone_text |-> Glue(SelectSeq(texts, IsPhoneText))]

\* C24: when the siblings of the h4 up to the first heading have any text,
\* the details are what the walk over the siblings gathered, with a text
\* that comes twice gathered twice; only when they have none, the details
\* are what the forward scan gathered from the content tags up to the first
\* heading, with each text once. Nothing after the first heading is read.
C24_FallbackOnlyWhenEmpty ==
    ret.kind = "pharmacy" =>
        /\ WalkTexts # <<>> => ret.details = Gathered(WalkTexts)
        /\ WalkTexts = <<>> => ret.details = Gathered(ScanTexts)
        /\ ret.details = _collect_pharmacy_details(arg.wrapped, BeforeHeading(arg.nodes))

\* the h4 has no sibling and is followed by the same text twice and then by
\* a heading: the forward scan gathered the text once
C24_Witness ==
    /\ ret.kind = "pharmacy"
    /\ arg.wrapped
    /\ Len(arg.nodes) = 3
    /\ arg.nodes[1] = arg.nodes[2]
    /\ arg.nodes[3].tag \in HEADING_TAGS
    /\ ret.details.address_lines = <<"Rue du Commerce">>

\* the texts that _collect_pharmacy_details gathers for the h4
GatheredTexts == IF WalkTexts # <<>> THEN WalkTexts ELSE ScanTexts

\* the numbers of one run of digits: 8 or 10 digits are one number, a longer
\* run is cut into blocks of 10 and then a block of 8
ChunkDigits(d) ==
    DedupStable(IF Len(d) \in {8, 10} THEN <<d>>
                ELSE IF Len(d) > 10 THEN _split_long_number(d, 0, <<>>)
                ELSE <<>>, <<>>)

\* C27: of the texts gathered for a pharmacy, those that pass the phone test
\* go to the phone text only and the others to the address only, in order;
\* the address is the address texts joined by spaces; the numbers are
\* extracted from the phone texts put one after the other, so that when no
\* phone text holds a separator / | , ; all their digits are one run, cut
\* into blocks of 10 and then 8.
C27_PhoneOrAddress ==
    ret.kind = "pharmacy" =>
        LET ph == SelectSeq(GatheredTexts, IsPhoneText)
            ad == SelectSeq(GatheredTexts, LAMBDA t : ~IsPhoneText(t))
        IN  /\ ret.details.address_lines = ad
            /\ ret.details.phone_text = Glue(ph)
            /\ ret.pharmacy.address_raw = Join(ad)
            /\ ret.pharmacy.phones_raw = html_extract_phones(Glue(ph))
            /\ (\A k \in 1..Len(ph) : \A c \in PhoneSeps : ~Contains(ph[k], c)) =>
                   ret.pharmacy.phones_raw = ChunkDigits(OnlyDigits(Glue(ph)))

\* a block of 8 digits is followed by a block of 10 digits: the 18 digits
\* were cut as one run into a block of 10 and a block of 8
C27_Witness ==
    /\ ret.kind = "pharmacy"
    /\ ~arg.wrapped
    /\ Len(arg.nodes) = 2
    /\ clean_text(arg.nodes[1].text) = "05 09 09 88"
    /\ clean_text(arg.nodes[2].text) = "0769353909"
    /\ ret.pharmacy.phones_raw = <<"0509098807", "69353909">>

(***************************************************************************)
(* parse_annuaireci: claim C25                                             *)
(***************************************************************************)
\* C25: an h4 gives a pharmacy only when an h3 came after the anchor, and
\* the pharmacy is appended at the end of the area of the latest h3, which is
\* the last area of the record; an h4 that comes before any h3 changes
\* nothing. An h3 appends an empty area at the end. No step removes or moves
\* an area or a pharmacy, so both stand in the order of the document.
C25_PharmacyUnderLatestArea ==
    /\ [][ nnodes' = nnodes + 1 =>
             /\ hrule' = "pharmacy" =>
                   /\ current_area_obj # 0
                   /\ current_area_obj = Len(data.areas)
                   /\ Len(data'.areas) = Len(data.areas)
                   /\ \A a \in 1..Len(data.areas) :
                         /\ data'.areas[a].area = data.areas[a].area
                         /\ a # Len(data.areas) =>
                               data'.areas[a].pharmacies = data.areas[a].pharmacies
                         /\ a = Len(data.areas) =>
                               /\ Len(data'.areas[a].pharmacies)
                                    = Len(data.areas[a].pharmacies) + 1
                               /\ SubSeq(data'.areas[a].pharmacies, 1,
                                         Len(data.areas[a].pharmacies))
                                    = data.areas[a].pharmacies
             /\ hrule' = "orphan" =>
                   /\ data.areas = <<>>
                   /\ data' = data
                   /\ current_area_obj' = 0
             /\ hrule' = "area" =>
                   /\ Len(data'.areas) = Len(data.areas) + 1
                   /\ SubSeq(data'.areas, 1, Len(data.areas)) = data.areas
                   /\ data'.areas[Len(data'.areas)].pharmacies = <<>>
                   /\ current_area_obj' = Len(data'.areas)
             /\ hrule' \notin {"pharmacy", "area"} => data'.areas = data.areas
         ]_vars
    /\ [](current_area_obj = Len(data.areas))

\* the record has two areas, the first one empty, and the h4 read last gave
\* the second area its first pharmacy
C25_Witness ==
    /\ hrule = "pharmacy"
    /\ Len(data.areas) = 2
    /\ data.areas[1].pharmacies = <<>>
    /\ Len(data.areas[2].pharmacies) = 1

(***************************************************************************)
(* db_helpers.upsert_with_retry                                            *)
(***************************************************************************)

\* most rows handed to one call of upsert_with_retry
MaxRows == 3

\* largest chunk_size of a call
MaxChunk == 2

MAX_RETRIES == 3

\* a row of a table: its conflict key and the URL of the PDF it came from
Row(key, source_url) == [key |-> key, source_url |-> source_url]

\* the two tables, empty
NoRows == [pharmacies |-> {}, duty_periods |-> {}]

chunks(lst, n) ==
    [k \in 1..((Len(lst) + n - 1) \div n) |->
        SubSeq(lst, (k - 1) * n + 1, Min({k * n, Len(lst)}))]

\* sb.table(name).upsert(ch, on_conflict=...).execute() carried out by the
\* database: a stored row with the key of a row of ch is replaced
Execute(tables, name, ch) ==
    LET keys == {ch[j].key : j \in 1..Len(ch)} IN
    [tables EXCEPT ![name] =
        {r \in @ : r.key \notin keys} \cup {ch[j] : j \in 1..Len(ch)}]

\* the except branch raises: `attempt < MAX_RETRIES` is false
LastAttemptLater(attempt) == ~(attempt < MAX_RETRIES + 1)

LastAttempt(attempt) == ~(attempt < MAX_RETRIES)

\* upsert_with_retry(sb, name, rows, conflict_col, chunk_size) is entered;
\* with no row there is no chunk and it returns 0 at once
UpsertCall(name, rows, chunk_size) ==
    [at |-> IF rows = <<>> THEN "returned" ELSE "run",
     name |-> name, rows |-> rows, chunk_size |-> chunk_size,
     i |-> 1, attempt |-> 1, total |-> 0, calls |-> <<>>]

\* the request of one attempt, as the client stub sees it
Called(u, ok) == [i |-> u.i, attempt |-> u.attempt, ok |-> ok]

\* an attempt succeeds: total grows, the loop moves to the next chunk, and
\* after the last chunk the function returns total
UpsertOk ==
    /\ upsert.at = "run"
    /\ LET all == chunks(upsert.rows, upsert.chunk_size)
           ch == all[upsert.i]
       IN /\ table' = Execute(table, upsert.name, ch)
          /\ upsert' = [upsert EXCEPT
                           !.total = @ + Len(ch),
                           !.calls = Append(@, Called(upsert, TRUE)),
                           !.i = @ + 1,
                           !.attempt = 1,
                           !.at = IF upsert.i = Len(all) THEN "returned" ELSE "run"]
    /\ UNCHANGED <<pdfVars, htmlVars, fnVars, loader, crawl>>

\* an attempt raises before the last one: the same chunk is sent again.
\* The request may have been carried out before the error reached the client
UpsertRetry ==
    /\ upsert.at = "run"
    /\ ~LastAttempt(upsert.attempt)
    /\ \E written \in BOOLEAN :
          table' = IF written
                   THEN Execute(table, upsert.name,
                                chunks(upsert.rows, upsert.chunk_size)[upsert.i])
                   ELSE table
    /\ upsert' = [upsert EXCEPT !.calls = Append(@, Called(upsert, FALSE)),
                                !.attempt = @ + 1]
    /\ UNCHANGED <<pdfVars, htmlVars, fnVars, loader, crawl>>

\* the last attempt raises: the exception leaves upsert_with_retry
UpsertRaise ==
    /\ upsert.at = "run"
    /\ LastAttempt(upsert.attempt)
    /\ \E written \in BOOLEAN :
          table' = IF written
                   THEN Execute(table, upsert.name,
                                chunks(upsert.rows, upsert.chunk_size)[upsert.i])
                   ELSE table
    /\ upsert' = [upsert EXCEPT !.calls = Append(@, Called(upsert, FALSE)),
                                !.at = "raised"]
    /\ UNCHANGED <<pdfVars, htmlVars, fnVars, loader, crawl>>

\* the rows of a call: n rows with the keys 1..n
RowsUpTo(n) == [k \in 1..n |-> Row(k, "a")]

UpsertInit ==
    /\ PdfOff /\ HtmlOff /\ FnIdle
    /\ table = NoRows
    /\ \E n \in 0..MaxRows, chunk_size \in 1..MaxChunk :
          upsert = UpsertCall("duty_periods", RowsUpTo(n), chunk_size)
    /\ loader = [at |-> "off"]
    /\ crawl = [at |-> "off"]

UpsertNext == UpsertOk \/ UpsertRetry \/ UpsertRaise

SpecUpsert == UpsertInit /\ [][UpsertNext]_vars

(***************************************************************************)
(* upsert_with_retry: claim C28                                            *)
(***************************************************************************)

\* the rows of chunk k of the running call are in the table
ChunkStored(k) ==
    LET ch == chunks(upsert.rows, upsert.chunk_size)[k] IN
    \A j \in 1..Len(ch) : ch[j] \in table[upsert.name]

\* C28: upsert_with_retry sends the chunks in order, makes at most 3
\* attempts per chunk and starts chunk k+1 only after chunk k succeeded; when
\* a chunk fails on its 3rd attempt the exception propagates, no later chunk
\* is attempted and the chunks upserted before stay upserted; when the
\* function returns normally, total is the number of input rows.
C28_ChunksInOrder ==
    /\ [](LET c == upsert.calls
              n == Len(chunks(upsert.rows, upsert.chunk_size))
          IN  /\ \A j \in 1..Len(c) :
                    /\ c[j].i \in 1..n
                    /\ c[j].attempt \in 1..3
                    /\ c[j].ok => ChunkStored(c[j].i)
                    /\ j = 1 => c[j].i = 1 /\ c[j].attempt = 1
                    /\ j > 1 /\ c[j - 1].ok =>
                          c[j].i = c[j - 1].i + 1 /\ c[j].attempt = 1
                    /\ j > 1 /\ ~c[j - 1].ok =>
                          c[j].i = c[j - 1].i /\ c[j].attempt = c[j - 1].attempt + 1
                    /\ ~c[j].ok /\ c[j].attempt = 3 =>
                          j = Len(c) /\ upsert.at = "raised"
              /\ upsert.at = "raised" =>
                    /\ c # <<>>
                    /\ ~c[Len(c)].ok /\ c[Len(c)].attempt = 3
                    /\ \A k \in 1..(c[Len(c)].i - 1) : ChunkStored(k)
              /\ upsert.at = "returned" =>
                    /\ upsert.total = Len(upsert.rows)
                    /\ \A k \in 1..n : ChunkStored(k)
                    /\ \A k \in 1..n : \E j \in 1..Len(c) : c[j].i = k /\ c[j].ok
                    /\ \A j \in 1..Len(c) : c[j].ok \/ c[j].attempt < 3)
    /\ [][/\ table[upsert.name] \subseteq table'[upsert.name]
          /\ upsert.at \in {"raised", "returned"} => upsert'.calls = upsert.calls
         ]_vars

\* the first chunk was upserted, the second one failed three times and was
\* not stored, the third one was never sent
C28_Witness ==
    /\ upsert.at = "raised"
    /\ Len(chunks(upsert.rows, upsert.chunk_size)) = 3
    /\ Len(upsert.calls) = 4
    /\ upsert.calls[1].ok
    /\ upsert.calls[4].i = 2
    /\ ChunkStored(1) /\ ~ChunkStored(2) /\ ~ChunkStored(3)

(***************************************************************************)
(* load_unppci_to_supabase.main, run after run on one database             *)
(***************************************************************************)

\* most runs of the loader
MaxRuns == 2

\* most PDFs that discover_and_download gives to one run
MaxPdfs == 2

\* chunk_size=200 and chunk_size=500 in the source, scaled down
PharmacyChunk == MaxChunk

DutyChunk == MaxChunk

\* the PDFs of the site, by URL
PdfUrls == {"a", "b", "c"}

\* what parse_unppci_pdf found in a PDF, flattened: one entry for each
\* pharmacy of each week.  "a" fills more than one chunk of duty rows, "b"
\* lists one pharmacy twice in a week, "c" has no pharmacy
PayloadOf(pdf_url) ==
    CASE pdf_url = "a" ->
            [k \in 1..MaxRows |->
                [pharmacy_key |-> ((k - 1) % 2) + 1, week |-> ((k - 1) \div 2) + 1]]
      [] pdf_url = "b" ->
            <<[pharmacy_key |-> 3, week |-> 1], [pharmacy_key |-> 3, week |-> 1]>>
      [] OTHER -> <<>>

compute_duty_key(pharmacy_key, week) == pharmacy_key * 10 + week

\* list(dedup.values()) after `dedup[r[key]] = r` for each row in turn: a
\* key keeps the place of its first row and the value of its last one
RECURSIVE DictValues(_)
DictValues(rows) ==
    IF rows = <<>> THEN <<>>
    ELSE LET front == DictValues(SubSeq(rows, 1, Len(rows) - 1))
             last == rows[Len(rows)]
         IN  IF \E j \in 1..Len(front) : front[j].key = last.key
             THEN [j \in 1..Len(front) |->
                      IF front[j].key = last.key THEN last ELSE front[j]]
             ELSE Append(front, last)

pharmacy_rows(pdf_url) ==
    LET entries == PayloadOf(pdf_url) IN
    DictValues([k \in 1..Len(entries) |-> Row(entries[k].pharmacy_key, pdf_url)])

\* the duty rows whose pharmacy has an id in key_to_id, one for each duty_key
duty_rows(pdf_url, key_to_id) ==
    LET entries == PayloadOf(pdf_url)
        known == SelectSeq(entries, LAMBDA e : e.pharmacy_key \in key_to_id)
    IN  DictValues([k \in 1..Len(known) |->
                       Row(compute_duty_key(known[k].pharmacy_key, known[k].week),
                           pdf_url)])

\* resp.data of the ingestion check is not empty
Ingested(pdf_url) == \E r \in table.duty_periods : r.source_url = pdf_url

\* the for loop of main goes to its next item, or ends
NextItem(l) ==
    [l EXCEPT !.item = @ + 1,
              !.at = IF l.item >= Len(l.results) THEN "done" ELSE "check"]

\* the lists of PDFs a run can be given
ResultLists ==
    {<<>>} \cup {<<p>> : p \in PdfUrls}
           \cup {r \in {<<p, q>> : p \in PdfUrls, q \in PdfUrls} : r[1] # r[2]}

\* main is started, with or without --force; with no PDF it exits at once
StartRun ==
    /\ loader.at \in {"idle", "done", "crashed"}
    /\ loader.run < MaxRuns
    /\ \E force \in BOOLEAN, results \in {r \in ResultLists : Len(r) <= MaxPdfs} :
          loader' = [at |-> IF results = <<>> THEN "done" ELSE "check",
                     run |-> loader.run + 1, force |-> force,
                     results |-> results, item |-> 1, skipped |-> <<>>]
    /\ upsert' = [at |-> "off"]
    /\ UNCHANGED <<pdfVars, htmlVars, fnVars, table, crawl>>

\* the ingestion check finds a duty row of this PDF: SKIP
SkipIngested ==
    /\ loader.at = "check"
    /\ ~loader.force
    /\ Ingested(loader.results[loader.item])
    /\ loader' = NextItem([loader EXCEPT
                              !.skipped = Append(@, loader.results[loader.item])])
    /\ UNCHANGED <<pdfVars, htmlVars, fnVars, table, upsert, crawl>>

\* --force, or the check finds no row, or the check raises: the payload is
\* loaded, pharmacies first; a payload without pharmacy loads nothing
LoadPayload ==
    /\ loader.at = "check"
    /\ \E raised \in BOOLEAN :
          loader.force \/ raised \/ ~Ingested(loader.results[loader.item])
    /\ LET rows == pharmacy_rows(loader.results[loader.item]) IN
       IF rows = <<>>
       THEN /\ loader' = NextItem(loader)
            /\ UNCHANGED upsert
       ELSE /\ loader' = [loader EXCEPT !.at = "pharmacies"]
            /\ upsert' = UpsertCall("pharmacies", rows, PharmacyChunk)
    /\ UNCHANGED <<pdfVars, htmlVars, fnVars, table, crawl>>

\* the pharmacies are upserted: fetch_key_to_id reads their ids and the
\* upsert of the duty rows begins
LoadDuties ==
    /\ loader.at = "pharmacies"
    /\ upsert.at = "returned"
    /\ LET key_to_id == {r.key : r \in table.pharmacies} IN
       upsert' = UpsertCall("duty_periods",
                            duty_rows(loader.results[loader.item], key_to_id),
                            DutyChunk)
    /\ loader' = [loader EXCEPT !.at = "duties"]
    /\ UNCHANGED <<pdfVars, htmlVars, fnVars, table, crawl>>

\* the duty rows are upserted: load_payload_to_supabase returns its counts
PayloadLoaded ==
    /\ loader.at = "duties"
    /\ upsert.at = "returned"
    /\ loader' = NextItem(loader)
    /\ UNCHANGED <<pdfVars, htmlVars, fnVars, table, upsert, crawl>>

\* an exception of upsert_with_retry or of fetch_key_to_id is caught
\* nowhere: main ends with it
LoadRaises ==
    /\ \/ loader.at \in {"pharmacies", "duties"} /\ upsert.at = "raised"
       \/ loader.at = "pharmacies" /\ upsert.at = "returned"
    /\ loader' = [loader EXCEPT !.at = "crashed"]
    /\ UNCHANGED <<pdfVars, htmlVars, fnVars, table, upsert, crawl>>

LoadInit ==
    /\ PdfOff /\ HtmlOff /\ FnIdle
    /\ table = NoRows
    /\ upsert = [at |-> "off"]
    /\ loader = [at |-> "idle", run |-> 0, force |-> FALSE,
                 results |-> <<>>, item |-> 1, skipped |-> <<>>]
    /\ crawl = [at |-> "off"]

LoadNext ==
    \/ StartRun
    \/ SkipIngested
    \/ LoadPayload
    \/ UpsertOk
    \/ UpsertRetry
    \/ UpsertRaise
    \/ LoadDuties
    \/ PayloadLoaded
    \/ LoadRaises

SpecLoad == LoadInit /\ [][LoadNext]_vars

(***************************************************************************)
(* load_unppci_to_supabase.main: claim C29                                 *)
(***************************************************************************)

\* every duty row of the payload of this PDF is in duty_periods
AllStored(pdf_url) ==
    LET rows == duty_rows(pdf_url, {e.pharmacy_key : e \in
                     {PayloadOf(pdf_url)[k] : k \in 1..Len(PayloadOf(pdf_url))}})
    IN  \A j \in 1..Len(rows) : rows[j] \in table.duty_periods

\* C29: a PDF is skipped as already ingested only when all of its duty rows
\* were stored by an earlier run; a PDF of which a failed load stored only
\* some duty rows is loaded again by a later run without --force.
C29_SkippedOnlyWhenComplete ==
    \A j \in 1..Len(loader.skipped) : AllStored(loader.skipped[j])

(***************************************************************************)
(* unppci_discover.discover_articles                                       *)
(***************************************************************************)

\* largest max_pages of a call
MaxPages == 3

\* most <a href> of one listing page, the pagination link not counted
MaxLinks == 2

UNPPCI_ARTICLES_CAT == "cat"

\* the listing pages of the site, by URL
ListingUrls == {UNPPCI_ARTICLES_CAT, "more"}

\* GARDE_KEYWORDS_RE.search(title), on the titles of ArticleLinks
GARDE_KEYWORDS_RE(title) == title \in {"Tours de garde de mars 2026"}

\* an <a href>: whether ARTICLE_ID_RE finds an id in the href, the id, and
\* the text of the tag
Link(has_id, id, title) == [has_id |-> has_id, id |-> id, title |-> title]

ArticleLinks ==
    {Link(TRUE, 1, "Tours de garde de mars 2026"),
     Link(TRUE, 1, "Lire la suite"),
     Link(TRUE, 2, "Communique"),
     Link(TRUE, 2, ""),
     Link(FALSE, 0, "Accueil")}

\* what a listing page can hold: its links in document order, and the href
\* of its "Plus d'articles" link, <<>> when it has none
ListingPages ==
    [links : SeqsUpTo(ArticleLinks, MaxLinks),
     next_url : {<<>>} \cup {<<u>> : u \in ListingUrls}]

\* `if art_id not in articles: articles[art_id] = Article(...)`, written
\* as an assignment that replaces the stored article
KeepLast(articles, a_tag) ==
    LET art == [id |-> a_tag.id, title |-> a_tag.title,
                is_garde |-> GARDE_KEYWORDS_RE(a_tag.title)]
    IN  IF \E j \in 1..Len(articles) : articles[j].id = a_tag.id
        THEN [j \in 1..Len(articles) |->
                 IF articles[j].id = a_tag.id THEN art ELSE articles[j]]
        ELSE Append(articles, art)

\* `if art_id not in articles: articles[art_id] = Article(...)`
Keep(articles, a_tag) ==
    IF \E j \in 1..Len(articles) : articles[j].id = a_tag.id
    THEN articles
    ELSE Append(articles, [id |-> a_tag.id, title |-> a_tag.title,
                           is_garde |-> GARDE_KEYWORDS_RE(a_tag.title)])

\* the loop over soup.find_all("a", href=True): a link without article id
\* or without text is passed over
RECURSIVE ScanLinks(_, _)
ScanLinks(articles, links) ==
    IF links = <<>> THEN articles
    ELSE LET a_tag == Head(links) IN
         ScanLinks(IF ~a_tag.has_id \/ a_tag.title = ""
                   THEN articles
                   ELSE Keep(articles, a_tag),
                   Tail(links))

\* sorted(articles.values(), key=lambda a: a.id, reverse=True)
RECURSIVE SortedByIdDesc(_)
SortedByIdDesc(articles) ==
    IF articles = <<>> THEN <<>>
    ELSE LET top == CHOOSE j \in 1..Len(articles) :
                       /\ \A h \in 1..Len(articles) : articles[h].id <= articles[j].id
                       /\ \A h \in 1..(j - 1) : articles[h].id < articles[j].id
         IN  <<articles[top]>> \o
             SortedByIdDesc(SubSeq(articles, 1, top - 1)
                            \o SubSeq(articles, top + 1, Len(articles)))

\* the test of the while loop
Looping(c) == c.current_url # <<>> /\ c.page < c.max_pages

\* the pages the site has served so far, by URL; a URL served twice gives
\* the same page
Served(c, url) == {c.site[j].html : j \in {h \in 1..Len(c.site) : c.site[h].url = url}}

\* one turn of the while loop: the page is fetched, its article links are
\* scanned, and its pagination link is the URL of the next turn
FetchListing ==
    /\ crawl.at = "loop"
    /\ Looping(crawl)
    /\ \E html \in ListingPages :
          /\ Served(crawl, crawl.current_url[1]) \subseteq {html}
          /\ crawl' = [crawl EXCEPT
                          !.page = @ + 1,
                          !.site = Append(@, [url |-> crawl.current_url[1],
                                              html |-> html]),
                          !.articles = ScanLinks(@, html.links),
                          !.current_url = html.next_url]
    /\ UNCHANGED <<pdfVars, htmlVars, fnVars, table, upsert, loader>>

\* fetch_html raises (raise_for_status, or the network): the exception
\* leaves discover_articles
FetchRaises ==
    /\ crawl.at = "loop"
    /\ Looping(crawl)
    /\ crawl' = [crawl EXCEPT !.page = @ + 1, !.at = "raised"]
    /\ UNCHANGED <<pdfVars, htmlVars, fnVars, table, upsert, loader>>

\* the loop has ended: the articles are sorted, filtered and returned
DiscoverReturn ==
    /\ crawl.at = "loop"
    /\ ~Looping(crawl)
    /\ crawl' = [crawl EXCEPT
                    !.at = "returned",
                    !.result = IF crawl.garde_only
                               THEN SelectSeq(SortedByIdDesc(crawl.articles),
                                              LAMBDA a : a.is_garde)
                               ELSE SortedByIdDesc(crawl.articles)]
    /\ UNCHANGED <<pdfVars, htmlVars, fnVars, table, upsert, loader>>

DiscoverInit ==
    /\ PdfOff /\ HtmlOff /\ FnIdle
    /\ table = {}
    /\ upsert = [at |-> "off"]
    /\ loader = [at |-> "off"]
    /\ \E max_pages \in 0..MaxPages, garde_only \in BOOLEAN :
          crawl = [at |-> "loop", max_pages |-> max_pages,
                   garde_only |-> garde_only, page |-> 0,
                   current_url |-> <<UNPPCI_ARTICLES_CAT>>,
                   articles |-> <<>>, site |-> <<>>, result |-> <<>>]

DiscoverNext == FetchListing \/ FetchRaises \/ DiscoverReturn

\* discover_articles is a sequential function: while it has a step to
\* take, it takes one
SpecDiscover == DiscoverInit /\ [][DiscoverNext]_vars /\ WF_vars(DiscoverNext)

(***************************************************************************)
(* discover_articles: claim C30                                            *)
(***************************************************************************)

\* the article links with an id and a text, in the order in which the
\* fetched pages showed them
RECURSIVE LinksServed(_)
LinksServed(site) ==
    IF site = <<>> THEN <<>>
    ELSE LinksServed(SubSeq(site, 1, Len(site) - 1))
         \o SelectSeq(site[Len(site)].html.links,
                      LAMBDA l : l.has_id /\ l.title # "")

\* C30: discover_articles ends after at most max_pages fetches of listing
\* pages, whatever the chain of pagination links, a chain that comes back to
\* a page already visited included; the result holds each article id at most
\* once, with the title of the first link that showed the id, and is sorted
\* by id in decreasing order.
C30_EndsWithinMaxPages ==
    /\ <>(crawl.at \in {"returned", "raised"})
    /\ [](crawl.page <= crawl.max_pages /\ Len(crawl.site) <= crawl.page)
    /\ [](crawl.at = "returned" =>
            LET result == crawl.result
                seen == LinksServed(crawl.site)
            IN  /\ \A j \in 1..(Len(result) - 1) : result[j].id > result[j + 1].id
                /\ \A j \in 1..Len(result) :
                      \E k \in 1..Len(seen) :
                         /\ seen[k].id = result[j].id
                         /\ seen[k].title = result[j].title
                         /\ \A h \in 1..(k - 1) : seen[h].id # result[j].id)

\* max_pages pages were fetched along the chain cat, more, cat, the last one
\* still had its pagination link, and an id shown with two titles is in the
\* result of two articles
C30_Witness ==
    /\ crawl.at = "returned"
    /\ crawl.max_pages = 3
    /\ Len(crawl.site) = 3
    /\ crawl.site[1].url = UNPPCI_ARTICLES_CAT
    /\ crawl.site[2].url = "more"
    /\ crawl.site[3].url = UNPPCI_ARTICLES_CAT
    /\ crawl.current_url # <<>>
    /\ Len(crawl.result) = 2
    /\ crawl.site[1].html.links
          = <<Link(TRUE, 1, "Lire la suite"), Link(TRUE, 1, "Tours de garde de mars 2026")>>

====
